---------------------------- MODULE Spec2Model ----------------------------
(***************************************************************************)
(* A model of gribe, a realtime speech-to-text gateway.                    *)
(*                                                                         *)
(* Several specifications share one module and one Init:                   *)
(*   SpecBuf   the AudioBuffer API of one buffer (domain.AudioBuffer)      *)
(*   SpecReg   the ASR model registry under concurrent GetModel and Close  *)
(*   Spec      one connection: the session task of HandleNewConnection and *)
(*             the transcription tasks it spawns                           *)
(*   SpecVad   any sequence of calls on one SimpleVADProvider              *)
(*   SpecScen  the scripted clients of the spec's scenarios                *)
(*   SpecMsg   one session's inbound messages, one after the other         *)
(*   SpecConv  the messages that touch conversation and current response   *)
(*   SpecClose goroutines calling ProcessAudio and Close on one VAD        *)
(*   SpecLive  Spec with a client of few messages and tasks that are       *)
(*             scheduled fairly                                            *)
(*   SpecPatch the message loop beside the transcription tasks, with a     *)
(*             client that deletes and creates items                       *)
(* A specification leaves the variables of the others alone.               *)
(***************************************************************************)
EXTENDS Integers, Sequences, FiniteSets, TLC

VARIABLES
    ab,            \* the AudioBuffer: Data, committed, startSet, speech timings, maxSize
    loadedModels,  \* ASRModelRegistry.loadedModels: model name -> handle (0: absent)
    regMu,         \* ASRModelRegistry.mu: who holds the write lock
    gm,            \* each registry caller: its position in GetModel, arguments,
                   \* returned provider handle (ret, 0: nil) and error flag (err),
                   \* whether the model was loaded when the call began (hit)
    calls,         \* GetModel calls made so far by all callers
    nextHandle,    \* the next provider handle a creator returns
    closedHandles, \* handles whose Close was invoked by registry Close
    epoch,         \* number of registry Close calls so far
    epochCreates,  \* per name: creator invocations since the last Close
    epochFails,    \* per name: creator failures since the last Close
    epochOK,       \* per name: successful constructions since the last Close
    totalOK,       \* per name: successful constructions since the registry was made
    globalConfig,  \* ASRModelRegistry.globalConfig: "set", or "nil" for a registry
                   \* made without an ASR configuration
    closeLog,      \* the last registry Close: the cache it found, the handles it
                   \* closed in order, those whose Close failed, what it returned
    connOpen,      \* the transport of the connection is up
    sess,          \* the session task: position in HandleNewConnection, steps left
                   \* of the handler it runs, result of its last WriteJSON
    sessions,      \* SessionManager.sessions: the session IDs it holds
    vadMap,        \* SessionUsecase.vadProviders has an entry for the session
    vad,           \* the session's SimpleVADProvider
    conv,          \* the session's ConversationState: Order and Items
    wire,          \* events passed to conn.WriteJSON, in call order
    writing,       \* tasks now inside conn.WriteJSON (0: session task, n: task of item n)
    tasks,         \* transcription tasks by item ID
    nextId,        \* the next item ID GenerateItemID returns
    msgs,          \* inbound messages read so far
    lateWrite,     \* a transcription task called WriteJSON after the session task ended
    bufLog,        \* the last call on the AudioBuffer: its argument, its result and
                   \* the buffer before it; what was fed since the buffer was empty;
                   \* the bytes the last Commit returned and what its caller holds
    vcfg,          \* SimpleVADProvider.config
    vlog,          \* the events the VAD has emitted, in order, and the chunks fed
                   \* to it since the chunk that started the current utterance
    scfg,          \* SessionState.Config: transcription and turn detection settings
    lastMsg,       \* the inbound message ProcessMessage handled last
    scen,          \* a scripted scenario: its chunk size and how far the client is
    currentResponse, \* SessionState.CurrentResponse (nil, or the response it points to)
    vproc          \* goroutines calling Close and ProcessAudio on one VAD: where
                   \* each is, who holds closeMu and mu, how often the event
                   \* channel was closed, sends attempted on the closed channel

bufVars == <<ab, bufLog>>
regVars == <<loadedModels, regMu, gm, calls, nextHandle, closedHandles, epoch,
             epochCreates, epochFails, epochOK, totalOK, globalConfig, closeLog>>
sessVars == <<connOpen, sess, sessions, vadMap, vad, conv, wire, writing, tasks,
              nextId, msgs, lateWrite>>
\* What the session task and the transcription tasks never touch.
aux == <<bufLog, vcfg, vlog, scfg, lastMsg, scen, currentResponse, vproc>>
notBuf == <<regVars, sessVars, vcfg, vlog, scfg, lastMsg, scen, currentResponse,
           vproc>>
notReg == <<bufVars, sessVars, vcfg, vlog, scfg, lastMsg, scen, currentResponse,
           vproc>>
vars == <<ab, loadedModels, regMu, gm, calls, nextHandle, closedHandles, epoch,
          epochCreates, epochFails, epochOK, totalOK, globalConfig, closeLog,
          connOpen, sess, sessions,
          vadMap, vad, conv, wire, writing, tasks, nextId, msgs, lateWrite,
          bufLog, vcfg, vlog, scfg, lastMsg, scen, currentResponse, vproc>>

(***************************************************************************)
(* Bounds                                                                  *)
(***************************************************************************)
MaxCap == 3        \* largest cap SetMaxSize is called with
MaxChunk == 2      \* longest byte slice passed to Append
MaxData == 4       \* longest buffer explored when the cap is 0 (unlimited)
MaxCalls == 2      \* GetModel calls made by all registry callers together
MaxCloses == 1     \* registry Close calls
NumCallers == 2    \* concurrent registry callers
MaxMsgs == 3       \* inbound messages read on the connection
MaxChunks == 2     \* chunks streamed by all providers together
MaxVadCalls == 5   \* calls made on the VAD provider taken alone
SessCap == 3       \* configured max_audio_buffer_size, in audio blocks
BlockBytes == 9600 \* bytes of one audio block (200 ms of PCM16 at 24 kHz)

Byte == {0, 1}

RECURSIVE SeqsUpTo(_, _)
SeqsUpTo(S, n) ==
    IF n = 0 THEN {<<>>}
    ELSE LET shorter == SeqsUpTo(S, n - 1)
         IN  shorter \cup {Append(s, x) : s \in {t \in shorter : Len(t) = n - 1}, x \in S}

(***************************************************************************)
(* domain.AudioBuffer                                                      *)
(***************************************************************************)
NewAudioBuffer ==
    [Data |-> <<>>, committed |-> FALSE, startSet |-> FALSE,
     speechStartMs |-> 0, speechEndMs |-> 0, maxSize |-> 0]

\* A guard that already refuses the append that fills the buffer to its cap.
AppendFitsBelowCap(b, data) ==
    ~(b.maxSize > 0 /\ Len(b.Data) + Len(data) >= b.maxSize)

\* Append's guard: the data fits, or the buffer is unlimited (maxSize = 0).
AppendFits(b, data) == ~(b.maxSize > 0 /\ Len(b.Data) + Len(data) > b.maxSize)

\* An Append that stores the data before it looks at the cap.
AbAppendThenCheck(b, data) == [b EXCEPT !.Data = @ \o data, !.startSet = TRUE]

\* Append: all or nothing; startSet stands for "startTime is not the zero time".
AbAppend(b, data) ==
    IF AppendFits(b, data)
    THEN [b EXCEPT !.Data = @ \o data, !.startSet = TRUE]
    ELSE b

\* SetMaxSize stores the new cap and looks at nothing else.
AbSetMaxSize(b, size) == [b EXCEPT !.maxSize = size]

\* Commit returns a copy of Data (AbCommitData) and marks the buffer committed.
AbCommitData(b) == b.Data
AbCommit(b) == [b EXCEPT !.committed = TRUE]

AbClear(b) ==
    [b EXCEPT !.Data = <<>>, !.committed = FALSE, !.startSet = FALSE,
              !.speechStartMs = 0, !.speechEndMs = 0]

\* An IsEmpty that never reports an empty buffer.
AbNeverEmpty(b) == FALSE

AbIsEmpty(b) == Len(b.Data) = 0

AbGetSize(b) == Len(b.Data)

(***************************************************************************)
(* SpecBuf: any sequence of calls on one AudioBuffer                       *)
(***************************************************************************)
\* Append's result: ErrBufferFull (TRUE) or nil (FALSE).
AbAppendErr(b, data) == ~AppendFits(b, data)

NewBufLog ==
    [op |-> "none", data |-> <<>>, err |-> FALSE, pre |-> NewAudioBuffer,
     fed |-> <<>>, rejected |-> FALSE,
     out |-> <<>>, held |-> <<>>, heldSet |-> FALSE]

\* A caller's slice that shares the buffer's storage.
HeldAliases(held, b) == b.Data

\* Commit hands out a copy (make and copy): what its caller holds does not
\* follow the buffer.
HeldAfter(held, b) == held

\* The log after a call op that found the buffer as ab and left it as b.
Logged(op, data, err, b) ==
    [bufLog EXCEPT !.op = op, !.data = data, !.err = err, !.pre = ab,
                   !.held = IF bufLog.heldSet THEN HeldAfter(@, b) ELSE @]

BufAppend ==
    /\ \E data \in SeqsUpTo(Byte, MaxChunk) :
          /\ Len(ab.Data) + Len(data) <= MaxData
          /\ ab' = AbAppend(ab, data)
          /\ LET err == AbAppendErr(ab, data)
                 lost == bufLog.rejected \/ err
             IN  bufLog' = [Logged("Append", data, err, ab') EXCEPT
                               !.rejected = lost,
                               !.fed = IF lost THEN <<>> ELSE @ \o data]
    /\ UNCHANGED notBuf

BufSetMaxSize ==
    /\ \E size \in 0..MaxCap :
          /\ ab' = AbSetMaxSize(ab, size)
          /\ bufLog' = Logged("SetMaxSize", <<>>, FALSE, ab')
    /\ UNCHANGED notBuf

BufCommit ==
    /\ ab' = AbCommit(ab)
    /\ bufLog' = [Logged("Commit", <<>>, FALSE, ab') EXCEPT
                      !.out = AbCommitData(ab), !.held = AbCommitData(ab),
                      !.heldSet = TRUE]
    /\ UNCHANGED notBuf

BufClear ==
    /\ ab' = AbClear(ab)
    /\ bufLog' = [Logged("Clear", <<>>, FALSE, ab') EXCEPT
                      !.fed = <<>>, !.rejected = FALSE]
    /\ UNCHANGED notBuf

BufInit == ab = NewAudioBuffer /\ bufLog = NewBufLog

BufNext == BufAppend \/ BufSetMaxSize \/ BufCommit \/ BufClear

(***************************************************************************)
(* ASRModelRegistry                                                        *)
(***************************************************************************)
Callers == 1..NumCallers

\* config.ASRConfig.Models of the modelled deployment: two models whose
\* provider types have a registered creator, one whose type has none, one
\* that names no provider type.
RegModels ==
    [M |-> [Provider |-> "sherpa-onnx", Languages |-> {"en"}],
     W |-> [Provider |-> "whisper-cpp", Languages |-> {"en"}],
     U |-> [Provider |-> "mock",        Languages |-> {"en"}],
     E |-> [Provider |-> "",            Languages |-> {"en"}]]

ModelNames == DOMAIN RegModels

\* NewASRModelRegistry registers the two built-in creators.
RegisteredTypes == {"sherpa-onnx", "whisper-cpp"}

\* Arguments callers pass: configured and unconfigured names, supported,
\* unsupported and empty languages.
ArgNames == ModelNames \cup {"X"}
ArgLangs == {"en", "fr", ""}

\* A validation that looks at the model name only.
ValidIgnoringLanguage(name, language) == name \in ModelNames

\* GetModel's validation before any lock is taken: TRUE when the call goes on.
GetModelValid(name, language) ==
    /\ name \in ModelNames
    /\ language # ""
    /\ language \in RegModels[name].Languages

\* The lookup made under the read lock.
LoadedUnderRLock(name) == loadedModels[name] # 0

\* A creator that skips the second lookup.
NoRecheck(name) == FALSE

\* The second lookup, made after the write lock is taken.
LoadedAfterLock(name) == loadedModels[name] # 0

\* A GetModel that returns the provider without caching it.
CacheForgotten(lm, name, h) == lm

\* r.loadedModels[modelName] = provider
CacheProvider(lm, name, h) == [lm EXCEPT ![name] = h]

\* A GetModel that caches what the creator returned even when it failed.
CacheFailedProvider(lm, name, h) == [lm EXCEPT ![name] = h]

\* The creator returned an error: GetModel returns before it touches the cache.
AfterCreatorError(lm, name, h) == lm

\* IsModelLoaded
IsModelLoaded(name) == loadedModels[name] # 0

GmIdle == [pc |-> "idle", name |-> "X", lang |-> "", valid |-> FALSE, ret |-> 0,
           err |-> FALSE, startEpoch |-> 0, with |-> {}, hit |-> FALSE]

InFlight == {c \in Callers : gm[c].pc # "idle"}

\* GetModel up to its first lock: validation failures return at once.
GmCall(c) ==
    /\ gm[c].pc = "idle"
    /\ calls < MaxCalls
    /\ calls' = calls + 1
    /\ \E name \in ArgNames, language \in ArgLangs :
          LET call == [gm[c] EXCEPT !.name = name, !.lang = language,
                                    !.startEpoch = epoch, !.with = InFlight,
                                    !.hit = name \in ModelNames /\ IsModelLoaded(name)]
          IN  IF globalConfig # "nil" /\ GetModelValid(name, language)
              THEN gm' = [d \in Callers |->
                            IF d = c THEN [call EXCEPT !.pc = "rlock", !.ret = 0, !.err = FALSE,
                                                       !.valid = TRUE]
                            ELSE IF d \in InFlight
                                 THEN [gm[d] EXCEPT !.with = @ \cup {c}]
                                 ELSE gm[d]]
              ELSE gm' = [gm EXCEPT ![c] = [call EXCEPT !.ret = 0, !.err = TRUE, !.with = {},
                                                             !.valid = FALSE]]
    /\ UNCHANGED <<loadedModels, regMu, nextHandle, closedHandles, epoch,
                   epochCreates, epochFails, epochOK, totalOK, globalConfig,
                   closeLog, notReg>>

\* RLock; lookup; RUnlock.  Readers wait while a writer holds the lock.
GmReadCheck(c) ==
    /\ gm[c].pc = "rlock"
    /\ regMu = 0
    /\ IF LoadedUnderRLock(gm[c].name)
       THEN gm' = [gm EXCEPT ![c].pc = "idle", ![c].ret = loadedModels[gm[c].name]]
       ELSE gm' = [gm EXCEPT ![c].pc = "wlock"]
    /\ UNCHANGED <<loadedModels, regMu, calls, nextHandle, closedHandles, epoch,
                   epochCreates, epochFails, epochOK, totalOK, globalConfig,
                   closeLog, notReg>>

\* r.mu.Lock()
GmLock(c) ==
    /\ gm[c].pc = "wlock"
    /\ regMu = 0
    /\ regMu' = c
    /\ gm' = [gm EXCEPT ![c].pc = "locked"]
    /\ UNCHANGED <<loadedModels, calls, nextHandle, closedHandles, epoch,
                   epochCreates, epochFails, epochOK, totalOK, globalConfig,
                   closeLog, notReg>>

\* Under the write lock: second lookup, provider type, creator, cache; the
\* deferred Unlock runs on every return.
GmLocked(c) ==
    LET name == gm[c].name
        ptype == RegModels[name].Provider
    IN
    /\ gm[c].pc = "locked"
    /\ regMu = c
    /\ regMu' = 0
    /\ IF LoadedAfterLock(name)
       THEN /\ gm' = [gm EXCEPT ![c].pc = "idle", ![c].ret = loadedModels[name]]
            /\ UNCHANGED <<loadedModels, nextHandle, epochCreates, epochFails,
                           epochOK, totalOK>>
       ELSE IF ptype = "" \/ ptype \notin RegisteredTypes
       THEN /\ gm' = [gm EXCEPT ![c].pc = "idle", ![c].err = TRUE]
            /\ UNCHANGED <<loadedModels, nextHandle, epochCreates, epochFails,
                           epochOK, totalOK>>
       ELSE \E ok \in BOOLEAN :
            /\ epochCreates' = [epochCreates EXCEPT ![name] = @ + 1]
            /\ IF ok
               THEN /\ loadedModels' = CacheProvider(loadedModels, name, nextHandle)
                    /\ nextHandle' = nextHandle + 1
                    /\ epochOK' = [epochOK EXCEPT ![name] = @ + 1]
                    /\ totalOK' = [totalOK EXCEPT ![name] = @ + 1]
                    /\ gm' = [gm EXCEPT ![c].pc = "idle", ![c].ret = nextHandle]
                    /\ UNCHANGED epochFails
               ELSE /\ epochFails' = [epochFails EXCEPT ![name] = @ + 1]
                    /\ gm' = [gm EXCEPT ![c].pc = "idle", ![c].err = TRUE]
                    /\ loadedModels' = AfterCreatorError(loadedModels, name, nextHandle)
                    /\ UNCHANGED <<nextHandle, epochOK, totalOK>>
    /\ UNCHANGED <<calls, closedHandles, epoch, globalConfig, closeLog, notReg>>

\* The orders in which a range over the handles S can visit them.
Orders(S) ==
    {o \in [1 .. Cardinality(S) -> S] : \A i, j \in DOMAIN o : o[i] = o[j] => i = j}

\* A Close that returns at the first provider whose Close fails.
ClosedUntilError(order, errs) ==
    LET bad == {i \in DOMAIN order : order[i] \in errs}
    IN  IF bad = {} THEN order
        ELSE SubSeq(order, 1, CHOOSE i \in bad : \A j \in bad : i <= j)

\* The providers Close calls Close on: every one the range visits, whether
\* or not an earlier Close failed.
ClosedBy(order, errs) == order

\* lastErr: the error of the last provider, in the order visited, whose
\* Close failed (an error is named by its provider's handle; 0 is nil).
LastErr(order, errs) ==
    LET bad == {i \in DOMAIN order : order[i] \in errs}
    IN  IF bad = {} THEN 0
        ELSE order[CHOOSE i \in bad : \A j \in bad : j <= i]

NoCloseLog == [pre |-> <<>>, order |-> <<>>, errs |-> {}, ret |-> 0]

\* Close: under the write lock, close every loaded provider in the order
\* the map range yields them, clear the cache, return the last error.
RegClose ==
    /\ epoch < MaxCloses
    /\ regMu = 0
    /\ LET loaded == {loadedModels[m] : m \in {n \in ModelNames : loadedModels[n] # 0}}
       IN  \E visit \in Orders(loaded), errs \in SUBSET loaded :
              LET order == ClosedBy(visit, errs)
              IN  /\ closedHandles' = closedHandles \cup {order[i] : i \in DOMAIN order}
                  /\ closeLog' = [pre |-> loadedModels, order |-> order,
                                  errs |-> errs, ret |-> LastErr(order, errs)]
    /\ loadedModels' = [m \in ModelNames |-> 0]
    /\ epoch' = epoch + 1
    /\ epochCreates' = [m \in ModelNames |-> 0]
    /\ epochFails' = [m \in ModelNames |-> 0]
    /\ epochOK' = [m \in ModelNames |-> 0]
    /\ UNCHANGED <<regMu, gm, calls, nextHandle, totalOK, globalConfig, notReg>>

\* NewASRModelRegistry(nil): the registry is made without a configuration.
RegNewNoConfig ==
    /\ globalConfig = "set" /\ calls = 0 /\ epoch = 0
    /\ globalConfig' = "nil"
    /\ UNCHANGED <<loadedModels, regMu, gm, calls, nextHandle, closedHandles, epoch,
                   epochCreates, epochFails, epochOK, totalOK, closeLog, notReg>>

RegInit ==
    /\ loadedModels = [m \in ModelNames |-> 0]
    /\ regMu = 0
    /\ gm = [c \in Callers |-> GmIdle]
    /\ calls = 0
    /\ nextHandle = 1
    /\ closedHandles = {}
    /\ epoch = 0
    /\ epochCreates = [m \in ModelNames |-> 0]
    /\ epochFails = [m \in ModelNames |-> 0]
    /\ epochOK = [m \in ModelNames |-> 0]
    /\ totalOK = [m \in ModelNames |-> 0]
    /\ globalConfig = "set"
    /\ closeLog = NoCloseLog

RegNext ==
    \/ \E c \in Callers : GmCall(c)
    \/ \E c \in Callers : GmReadCheck(c)
    \/ \E c \in Callers : GmLock(c)
    \/ \E c \in Callers : GmLocked(c)
    \/ RegClose
    \/ RegNewNoConfig

(***************************************************************************)
(* The session of one connection.  Audio is modelled in blocks: a block    *)
(* stands for BlockBytes bytes of PCM16 samples of one amplitude, a chunk  *)
(* and a buffer are sequences of blocks, and sizes and the cap count       *)
(* blocks.                                                                 *)
(***************************************************************************)
SID == "sess_1"

SampleRate == 24000
VadChanCap == 10
DefaultThresholdMilli == 500
DefaultPrefixPaddingMs == 300
DefaultSilenceDurationMs == 200

\* Amplitudes of a block: silence, and a tone above the default threshold.
Amps == {0, 600}

\* Chunks a client appends: one block each.
Chunks == {<<a>> : a \in Amps}

\* Texts of the chunks a provider streams (the empty text included).
Texts == {<<>>, <<"a">>}

\* domain.VADConfigFromTurnDetection applied to the default TurnDetection of
\* domain.NewSession; Threshold is kept in thousandths (0.5 is 500).
SessVadConfig ==
    [Threshold |-> DefaultThresholdMilli,
     PrefixPaddingMs |-> DefaultPrefixPaddingMs,
     SilenceDurationMs |-> DefaultSilenceDurationMs,
     IdleTimeoutMs |-> 0,
     SampleRate |-> SampleRate]

RECURSIVE SumSq(_)
SumSq(audio) ==
    IF audio = <<>> THEN 0 ELSE Head(audio) * Head(audio) + SumSq(Tail(audio))

\* calculateEnergy(audio) > Threshold * 1000.  Blocks hold equally many
\* samples, so the mean square of a chunk is the mean of its blocks' squares;
\* rms > t is compared as sum of squares > t * t * count.
EnergyAbove(audio, cfg) ==
    /\ Len(audio) * BlockBytes >= 2
    /\ SumSq(audio) > cfg.Threshold * cfg.Threshold * Len(audio)

\* A provider that drops the silent chunks inside an utterance.
BridgeDropsSilence(buf, audio) == buf

\* Silence while speaking is still accumulated: it may be a pause in speech.
Bridge(buf, audio) == buf \o audio

NoVadEvent == [Type |-> "none", StartMs |-> 0, EndMs |-> 0, AudioData |-> <<>>]

NewSimpleVADProvider ==
    [isSpeaking |-> FALSE, silentSamples |-> 0, audioBuffer |-> <<>>,
     startMs |-> 0, currentMs |-> 0, events |-> <<>>, closed |-> FALSE]

\* sendEvent: nothing after Close; a full channel drops the event.
VadSendEvent(v, e) ==
    IF v.closed THEN v
    ELSE IF Len(v.events) < VadChanCap THEN [v EXCEPT !.events = Append(@, e)]
    ELSE v

\* An idle timeout that does not look at who is speaking.
IdleTimedOutAnyway(cfg, was, v) ==
    /\ cfg.IdleTimeoutMs > 0
    /\ v.currentMs >= cfg.IdleTimeoutMs

\* The idle timeout test at the end of ProcessAudio: was is isSpeaking at
\* the start of the call, v the provider after the clock has advanced.
IdleTimedOut(cfg, was, v) ==
    /\ cfg.IdleTimeoutMs > 0
    /\ ~was
    /\ ~v.isSpeaking
    /\ v.currentMs >= cfg.IdleTimeoutMs

\* ProcessAudio on a chunk of nbytes bytes whose energy is or is not above
\* the threshold.
VadProcessAudio(v, cfg, audio, nbytes, above) ==
    IF v.closed \/ nbytes = 0 THEN v
    ELSE
    LET dur == (((nbytes \div 2) * 1000) \div cfg.SampleRate)
        was == v.isSpeaking
        prefixStart == IF v.currentMs - cfg.PrefixPaddingMs < 0 THEN 0
                       ELSE v.currentMs - cfg.PrefixPaddingMs
        speech ==
            LET a == [v EXCEPT !.silentSamples = 0]
                b == IF ~v.isSpeaking
                     THEN VadSendEvent([a EXCEPT !.isSpeaking = TRUE,
                                                 !.startMs = v.currentMs],
                                       [NoVadEvent EXCEPT !.Type = "speech_started",
                                                          !.StartMs = prefixStart])
                     ELSE a
            IN  [b EXCEPT !.audioBuffer = @ \o audio]
        silence ==
            IF v.isSpeaking
            THEN LET a == [v EXCEPT !.silentSamples = @ + dur,
                                    !.audioBuffer = Bridge(@, audio)]
                 IN  IF a.silentSamples >= cfg.SilenceDurationMs
                     THEN [VadSendEvent([a EXCEPT !.isSpeaking = FALSE],
                                        [Type |-> "speech_stopped",
                                         StartMs |-> a.startMs,
                                         EndMs |-> a.currentMs,
                                         AudioData |-> a.audioBuffer])
                           EXCEPT !.audioBuffer = <<>>]
                     ELSE a
            ELSE v
        v1 == IF above THEN speech ELSE silence
        v2 == [v1 EXCEPT !.currentMs = @ + dur]
    IN  IF IdleTimedOut(cfg, was, v2)
        THEN VadSendEvent(v2, [NoVadEvent EXCEPT !.Type = "timeout",
                                                 !.EndMs = v2.currentMs])
        ELSE v2

\* Close: marks the provider closed and closes the event channel.
VadClose(v) == [v EXCEPT !.closed = TRUE]

(***************************************************************************)
(* SpecVad: any sequence of calls on one SimpleVADProvider                 *)
(***************************************************************************)
\* Amplitudes of a block fed to the VAD alone: silence, a tone above the
\* default threshold, and a tone above a threshold of 1.0.
VadAmps == {0, 600, 2000}

\* Chunks passed to ProcessAudio: one block, or no bytes at all.
VadChunks == {<<a>> : a \in VadAmps} \cup {<<>>}

\* Configurations passed to Configure: that of a default session, that of
\* domain.NewDefaultVADConfig (silence of 500 ms), one with threshold 1.0,
\* one with an idle timeout.
VadConfigs ==
    {SessVadConfig,
     [SessVadConfig EXCEPT !.SilenceDurationMs = 500],
     [SessVadConfig EXCEPT !.Threshold = 2 * DefaultThresholdMilli],
     [SessVadConfig EXCEPT !.IdleTimeoutMs = 2 * DefaultSilenceDurationMs],
     [SessVadConfig EXCEPT !.IdleTimeoutMs = 3 * DefaultSilenceDurationMs]}

\* Configure: a non-nil config replaces the provider's.
VadConfigure(c, config) == config

\* Reset: speaker flag, silence counter, segment buffer and clocks.
VadReset(v) ==
    [v EXCEPT !.isSpeaking = FALSE, !.silentSamples = 0, !.audioBuffer = <<>>,
              !.startMs = 0, !.currentMs = 0]

\* ForceCommit's result: a speech_stopped with the segment buffer, or nil
\* (NoVadEvent) when the segment buffer is empty.
VadForceCommitEvent(v) ==
    IF Len(v.audioBuffer) = 0 THEN NoVadEvent
    ELSE [Type |-> "speech_stopped", StartMs |-> v.startMs,
          EndMs |-> v.currentMs, AudioData |-> v.audioBuffer]

\* A ForceCommit that hands out the segment and forgets to leave the
\* speaking state.
VadForceCommitKeepsSpeaking(v) ==
    IF Len(v.audioBuffer) = 0 THEN v
    ELSE [v EXCEPT !.audioBuffer = <<>>, !.startMs = v.currentMs]

\* A ForceCommit that hands out the segment and keeps it in the buffer.
VadForceCommitKeepsBuffer(v) ==
    IF Len(v.audioBuffer) = 0 THEN v
    ELSE [v EXCEPT !.isSpeaking = FALSE, !.startMs = v.currentMs]

\* ForceCommit's effect on the provider.
VadForceCommit(v) ==
    IF Len(v.audioBuffer) = 0 THEN v
    ELSE [v EXCEPT !.audioBuffer = <<>>, !.isSpeaking = FALSE,
                   !.startMs = v.currentMs]

\* What is kept of the calls: the events in order with the chunks behind
\* them, the calls made, whether a chunk above the threshold was fed (spoke)
\* and the audio time fed since the last one (idle), and for every timeout
\* event these two with the limit in force (tmo).
NewVadLog ==
    [stream |-> <<>>, utt |-> <<>>, calls |-> 0, spoke |-> FALSE, idle |-> 0,
     tmo |-> <<>>]

\* An emitted event as logged: with the chunks fed since the utterance
\* started (fed) and the threshold in force (thr).
LogEv(e, fed, thr) ==
    [Type |-> e.Type, StartMs |-> e.StartMs, EndMs |-> e.EndMs,
     AudioData |-> e.AudioData, fed |-> fed, thr |-> thr]

\* A Reset call as it is marked in the log.
ResetMark == LogEv([NoVadEvent EXCEPT !.Type = "reset"], <<>>, 0)

\* The chunks of the utterance after ProcessAudio(chunk) took the provider
\* from v to w.
UttAfter(utt, v, w, chunk) ==
    IF v.closed THEN utt
    ELSE IF ~v.isSpeaking /\ w.isSpeaking THEN chunk
    ELSE IF v.isSpeaking THEN utt \o chunk
    ELSE utt

\* The events ProcessAudio put on the channel, as logged.
RECURSIVE LogAll(_, _, _)
LogAll(evts, fed, thr) ==
    IF evts = <<>> THEN <<>>
    ELSE <<LogEv(Head(evts), fed, thr)>> \o LogAll(Tail(evts), fed, thr)

sessNoVad == <<connOpen, sess, sessions, vadMap, conv, wire, writing, tasks,
               nextId, msgs, lateWrite>>
notVad == <<bufVars, regVars, sessNoVad, scfg, lastMsg, scen, currentResponse,
           vproc>>

VapiProcessAudio ==
    /\ vlog.calls < MaxVadCalls
    /\ \E chunk \in VadChunks :
          LET w == VadProcessAudio(vad, vcfg, chunk, Len(chunk) * BlockBytes,
                                   EnergyAbove(chunk, vcfg))
              utt == UttAfter(vlog.utt, vad, w, chunk)
              new == SubSeq(w.events, Len(vad.events) + 1, Len(w.events))
              above == chunk # <<>> /\ EnergyAbove(chunk, vcfg)
              idle == IF above THEN 0
                      ELSE vlog.idle + (w.currentMs - vad.currentMs)
              timeouts == SelectSeq(new, LAMBDA e : e.Type = "timeout")
          IN  /\ vad' = w
              /\ vlog' = [stream |-> vlog.stream \o LogAll(new, utt, vcfg.Threshold),
                          utt |-> utt, calls |-> vlog.calls + 1,
                          spoke |-> vlog.spoke \/ above,
                          idle |-> idle,
                          tmo |-> vlog.tmo \o
                                  [i \in 1 .. Len(timeouts) |->
                                      [idle |-> idle, spoke |-> vlog.spoke \/ above,
                                       limit |-> vcfg.IdleTimeoutMs,
                                       speaking |-> w.isSpeaking]]]
    /\ UNCHANGED <<vcfg, notVad>>

VapiForceCommit ==
    /\ vlog.calls < MaxVadCalls
    /\ vad' = VadForceCommit(vad)
    /\ LET e == VadForceCommitEvent(vad)
       IN  vlog' = [vlog EXCEPT !.calls = @ + 1,
                                !.stream = IF e.Type = "none" THEN @
                                           ELSE Append(@, LogEv(e, vlog.utt,
                                                                vcfg.Threshold))]
    /\ UNCHANGED <<vcfg, notVad>>

VapiReset ==
    /\ vlog.calls < MaxVadCalls
    /\ vad' = VadReset(vad)
    /\ vlog' = [vlog EXCEPT !.calls = @ + 1, !.stream = Append(@, ResetMark),
                            !.spoke = FALSE, !.idle = 0]
    /\ UNCHANGED <<vcfg, notVad>>

VapiConfigure ==
    /\ vlog.calls < MaxVadCalls
    /\ \E c \in VadConfigs : vcfg' = VadConfigure(vcfg, c)
    /\ vlog' = [vlog EXCEPT !.calls = @ + 1]
    /\ UNCHANGED <<vad, notVad>>

VadInit == vcfg = SessVadConfig /\ vlog = NewVadLog

VadNext == VapiProcessAudio \/ VapiForceCommit \/ VapiReset \/ VapiConfigure

(***************************************************************************)
(* Events on the wire and the steps of a handler                           *)
(***************************************************************************)
\* An outbound event: its type, the item it names (0: none), the previous
\* item (0: absent), a text (delta or transcript) and an error code; by is
\* the task that called WriteJSON with it (0: the session task, n: the
\* transcription of item n).
Ev(type, item, prev, text, code) ==
    [type |-> type, item |-> item, prev |-> prev, text |-> text, code |-> code,
     eid |-> "", sess |-> <<>>, resp |-> <<>>, by |-> 0]

\* conn.WriteJSON(e) called by task who: the event joins the connection's
\* stream in call order.
WriteJSON(w, who, e) == Append(w, [e EXCEPT !.by = who])

NoEv == Ev("none", 0, 0, <<>>, "")

\* A step of a handler: a WriteJSON ("w"), Conversation.AddItem ("add"),
\* go transcribeAudio ("spawn"), AudioBuffer.Clear ("clear").
OpW(e) == [k |-> "w", ev |-> e, item |-> 0, audio |-> <<>>]
OpAdd(id, audio) == [k |-> "add", ev |-> NoEv, item |-> id, audio |-> audio]
OpSpawn(id, audio) == [k |-> "spawn", ev |-> NoEv, item |-> id, audio |-> audio]
OpClear == [k |-> "clear", ev |-> NoEv, item |-> 0, audio |-> <<>>]

\* sendError
ErrorOps(code) == <<OpW(Ev("error", 0, 0, <<>>, code))>>

\* A commitAndTranscribe that starts the transcription before it has
\* written conversation.item.created.
CommitOpsSpawnEarly(id, audio, prev) ==
    <<OpAdd(id, audio),
      OpW(Ev("input_audio_buffer.committed", id, prev, <<>>, "")),
      OpSpawn(id, audio),
      OpW(Ev("conversation.item.created", id, prev, <<>>, ""))>>

\* A commitAndTranscribe that also clears the session's audio buffer.
CommitOpsClearing(id, audio, prev) ==
    <<OpAdd(id, audio),
      OpW(Ev("input_audio_buffer.committed", id, prev, <<>>, "")),
      OpW(Ev("conversation.item.created", id, prev, <<>>, "")),
      OpSpawn(id, audio),
      OpClear>>

\* commitAndTranscribe: AddItem, write committed, write item.created, then
\* go transcribeAudio.
CommitOps(id, audio, prev) ==
    <<OpAdd(id, audio),
      OpW(Ev("input_audio_buffer.committed", id, prev, <<>>, "")),
      OpW(Ev("conversation.item.created", id, prev, <<>>, "")),
      OpSpawn(id, audio)>>

Last(order) == IF order = <<>> THEN 0 ELSE order[Len(order)]

\* processVADEvents: the steps for the drained events; every event takes one
\* fresh item ID, a speech_stopped with audio commits under that ID.
RECURSIVE VadOps(_, _, _)
VadOps(evts, id, order) ==
    IF evts = <<>> THEN <<>>
    ELSE LET e == Head(evts)
             commits == e.Type = "speech_stopped" /\ Len(e.AudioData) > 0
             here ==
                 IF e.Type = "speech_started"
                 THEN <<OpW(Ev("input_audio_buffer.speech_started", id, 0, <<>>, ""))>>
                 ELSE IF e.Type = "speech_stopped"
                 THEN <<OpW(Ev("input_audio_buffer.speech_stopped", id, 0, <<>>, ""))>>
                      \o (IF commits THEN CommitOps(id, e.AudioData, Last(order))
                          ELSE <<>>)
                 ELSE <<OpW(Ev("input_audio_buffer.timeout_triggered", id, 0, <<>>, ""))>>
         IN  here \o VadOps(Tail(evts), id + 1,
                            IF commits THEN Append(order, id) ELSE order)

(***************************************************************************)
(* ConversationState                                                       *)
(***************************************************************************)
NewConversationState == [Order |-> <<>>, Items |-> <<>>]

\* An input-audio user item: content[0] holds the audio and the transcript.
NewAudioItem(audio) == [audio |-> audio, transcript |-> <<>>]

AddItem(cs, id, item) ==
    [Order |-> Append(cs.Order, id),
     Items |-> [x \in DOMAIN cs.Items \cup {id} |->
                   IF x = id THEN item ELSE cs.Items[x]]]

HasItem(cs, id) == id \in DOMAIN cs.Items

\* transcribeAudio's patch: item.Content[0].Transcript = fullTranscript when
\* the item is still in the conversation.
PatchTranscript(cs, id, text) ==
    IF HasItem(cs, id)
    THEN [cs EXCEPT !.Items = [@ EXCEPT ![id] = [@ EXCEPT !.transcript = text]]]
    ELSE cs

(***************************************************************************)
(* HandleNewConnection: the session task                                   *)
(***************************************************************************)
SessInit ==
    /\ connOpen = TRUE
    /\ sess = [pc |-> "new", ops |-> <<>>, inWrite |-> FALSE, wok |-> TRUE]
    /\ sessions = {}
    /\ vadMap = FALSE
    /\ vad = NewSimpleVADProvider
    /\ conv = NewConversationState
    /\ wire = <<>>
    /\ writing = {}
    /\ tasks = <<>>
    /\ nextId = 1
    /\ msgs = 0
    /\ lateWrite = FALSE

\* The transport drops (the peer closes, the network fails).
ConnFail ==
    /\ connOpen
    /\ connOpen' = FALSE
    /\ UNCHANGED <<ab, sess, sessions, vadMap, vad, conv, wire, writing, tasks,
                   nextId, msgs, lateWrite, regVars,
                   aux>>

\* CreateSession, SetMaxSize, and the call of WriteJSON(session.created).
SessCreate ==
    /\ sess.pc = "new"
    /\ sessions' = sessions \cup {SID}
    /\ ab' = AbSetMaxSize(NewAudioBuffer, SessCap)
    /\ wire' = WriteJSON(wire, 0, Ev("session.created", 0, 0, <<>>, ""))
    /\ writing' = writing \cup {0}
    /\ sess' = [sess EXCEPT !.pc = "greet", !.wok = connOpen]
    /\ UNCHANGED <<connOpen, vadMap, vad, conv, tasks, nextId, msgs, lateWrite,
                   regVars, aux>>

\* WriteJSON(session.created) returns: on an error the handler returns at
\* once, otherwise it enters the read loop.
SessGreeted ==
    /\ sess.pc = "greet"
    /\ writing' = writing \ {0}
    /\ sess' = [sess EXCEPT !.pc = IF sess.wok THEN "read" ELSE "exited"]
    /\ UNCHANGED <<ab, connOpen, sessions, vadMap, vad, conv, wire, tasks,
                   nextId, msgs, lateWrite, regVars,
                   aux>>

\* The handler's steps are queued; with none the task reads again.
Run(ops) == [sess EXCEPT !.pc = IF ops = <<>> THEN "read" ELSE "run", !.ops = ops]

\* ReadMessage returns input_audio_buffer.append: Append, then with turn
\* detection on getOrCreateVAD, ProcessAudio and processVADEvents.
SessReadAppend(chunk) ==
    /\ sess.pc = "read" /\ connOpen /\ msgs < MaxMsgs
    /\ msgs' = msgs + 1
    /\ IF ~AppendFits(ab, chunk)
       THEN /\ sess' = Run(ErrorOps("buffer_full"))
            /\ UNCHANGED <<ab, vadMap, vad, nextId>>
       ELSE LET v0 == IF vadMap THEN vad ELSE NewSimpleVADProvider
                v1 == VadProcessAudio(v0, SessVadConfig, chunk,
                                      Len(chunk) * BlockBytes,
                                      EnergyAbove(chunk, SessVadConfig))
            IN  /\ ab' = AbAppend(ab, chunk)
                /\ vadMap' = TRUE
                /\ vad' = [v1 EXCEPT !.events = <<>>]
                /\ nextId' = nextId + Len(v1.events)
                /\ sess' = Run(VadOps(v1.events, nextId, conv.Order))
    /\ UNCHANGED <<connOpen, sessions, conv, wire, writing, tasks, lateWrite,
                   regVars, aux>>

\* ReadMessage returns input_audio_buffer.commit.
SessReadCommit ==
    /\ sess.pc = "read" /\ connOpen /\ msgs < MaxMsgs
    /\ msgs' = msgs + 1
    /\ IF AbIsEmpty(ab)
       THEN /\ sess' = Run(ErrorOps("empty_buffer"))
            /\ UNCHANGED <<ab, nextId>>
       ELSE /\ ab' = AbCommit(ab)
            /\ nextId' = nextId + 1
            /\ sess' = Run(CommitOps(nextId, AbCommitData(ab), Last(conv.Order))
                           \o <<OpClear>>)
    /\ UNCHANGED <<connOpen, sessions, vadMap, vad, conv, wire, writing, tasks,
                   lateWrite, regVars,
                   aux>>

\* ReadMessage returns input_audio_buffer.clear.
SessReadClear ==
    /\ sess.pc = "read" /\ connOpen /\ msgs < MaxMsgs
    /\ msgs' = msgs + 1
    /\ ab' = AbClear(ab)
    /\ sess' = Run(<<OpW(Ev("input_audio_buffer.cleared", 0, 0, <<>>, ""))>>)
    /\ UNCHANGED <<connOpen, sessions, vadMap, vad, conv, wire, writing, tasks,
                   nextId, lateWrite, regVars,
                   aux>>

\* ReadMessage returns an error: the loop breaks.
SessReadFail ==
    /\ sess.pc = "read" /\ ~connOpen
    /\ sess' = [sess EXCEPT !.pc = "cleanup"]
    /\ UNCHANGED <<ab, connOpen, sessions, vadMap, vad, conv, wire, writing,
                   tasks, nextId, msgs, lateWrite, regVars,
                   aux>>

\* The session task calls conn.WriteJSON.
SessWriteBegin ==
    /\ sess.pc = "run" /\ Head(sess.ops).k = "w" /\ ~sess.inWrite
    /\ wire' = WriteJSON(wire, 0, Head(sess.ops).ev)
    /\ writing' = writing \cup {0}
    /\ sess' = [sess EXCEPT !.inWrite = TRUE]
    /\ UNCHANGED <<ab, connOpen, sessions, vadMap, vad, conv, tasks, nextId,
                   msgs, lateWrite, regVars,
                   aux>>

\* The session task's WriteJSON returns; its result is ignored.
SessWriteEnd ==
    /\ sess.pc = "run" /\ sess.inWrite
    /\ writing' = writing \ {0}
    /\ sess' = [Run(Tail(sess.ops)) EXCEPT !.inWrite = FALSE]
    /\ UNCHANGED <<ab, connOpen, sessions, vadMap, vad, conv, wire, tasks,
                   nextId, msgs, lateWrite, regVars,
                   aux>>

\* state.Conversation.AddItem(item)
SessAddItem ==
    /\ sess.pc = "run" /\ Head(sess.ops).k = "add"
    /\ conv' = AddItem(conv, Head(sess.ops).item, NewAudioItem(Head(sess.ops).audio))
    /\ sess' = Run(Tail(sess.ops))
    /\ UNCHANGED <<ab, connOpen, sessions, vadMap, vad, wire, writing, tasks,
                   nextId, msgs, lateWrite, regVars,
                   aux>>

NewTask ==
    [pc |-> "start", next |-> "start", ctxDone |-> FALSE, expiredEarly |-> FALSE,
     chanClosed |-> FALSE, sent |-> 0, full |-> <<>>]

\* go u.transcribeAudio(conn, state, itemID, audioData)
SessSpawn ==
    /\ sess.pc = "run" /\ Head(sess.ops).k = "spawn"
    /\ tasks' = (Head(sess.ops).item :> NewTask) @@ tasks
    /\ sess' = Run(Tail(sess.ops))
    /\ UNCHANGED <<ab, connOpen, sessions, vadMap, vad, conv, wire, writing,
                   nextId, msgs, lateWrite, regVars,
                   aux>>

\* state.AudioBuffer.Clear() after a manual commit
SessClear ==
    /\ sess.pc = "run" /\ Head(sess.ops).k = "clear"
    /\ ab' = AbClear(ab)
    /\ sess' = Run(Tail(sess.ops))
    /\ UNCHANGED <<connOpen, sessions, vadMap, vad, conv, wire, writing, tasks,
                   nextId, msgs, lateWrite, regVars,
                   aux>>

\* removeVAD and DeleteSession after the read loop.
SessCleanup ==
    /\ sess.pc = "cleanup"
    /\ vad' = IF vadMap THEN VadClose(vad) ELSE vad
    /\ vadMap' = FALSE
    /\ sessions' = sessions \ {SID}
    /\ sess' = [sess EXCEPT !.pc = "exited"]
    /\ UNCHANGED <<ab, connOpen, conv, wire, writing, tasks, nextId, msgs,
                   lateWrite, regVars,
                   aux>>

(***************************************************************************)
(* transcribeAudio: one task per committed item, its provider's stream and *)
(* the deadline of its context                                             *)
(***************************************************************************)
TaskIds == DOMAIN tasks

RECURSIVE SentBy(_)
SentBy(ids) ==
    IF ids = {} THEN 0
    ELSE LET t == CHOOSE x \in ids : TRUE
         IN  tasks[t].sent + SentBy(ids \ {t})

\* Chunks streamed so far by all providers together.
TotalSent == SentBy(TaskIds)

Running(t) == t \in TaskIds /\ tasks[t].pc # "done"

\* A loop that goes on selecting after it has reported a failure.
AfterWriteKeepsSelecting(type) ==
    IF type = "conversation.item.input_audio_transcription.completed"
    THEN "patch" ELSE "select"

\* A WriteJSON that never hands control back to the task.
AfterWriteNeverReturns(type) == "write"

\* Where transcribeAudio goes after a WriteJSON: back to the select after a
\* delta, to the item's patch after completed, and it returns after failed.
AfterWrite(type) ==
    IF type = "conversation.item.input_audio_transcription.delta" THEN "select"
    ELSE IF type = "conversation.item.input_audio_transcription.completed"
    THEN "patch"
    ELSE "done"

\* A transcript that keeps only the last chunk.
KeepLastChunk(full, text) == text

\* fullTranscript += chunk.Text
AccumulateTranscript(full, text) == full \o text

\* The task of item t calls conn.WriteJSON(e); tk is its record before the call.
TaskWrites(t, tk, e) ==
    /\ wire' = WriteJSON(wire, t, e)
    /\ writing' = writing \cup {t}
    /\ lateWrite' = (lateWrite \/ sess.pc = "exited")
    /\ tasks' = [tasks EXCEPT ![t] = [tk EXCEPT !.pc = "write",
                                                !.next = AfterWrite(e.type)]]

FailedEv(code) ==
    Ev("conversation.item.input_audio_transcription.failed", 0, 0, <<>>, code)

\* asrProvider.Transcribe returns: a result channel, or an error, which the
\* task reports as failed(transcription_failed).
TaskTranscribe(t) ==
    /\ Running(t) /\ tasks[t].pc = "start"
    /\ \E ok \in BOOLEAN :
          IF ok
          THEN /\ tasks' = [tasks EXCEPT ![t].pc = "select"]
               /\ UNCHANGED <<wire, writing, lateWrite>>
          ELSE TaskWrites(t, tasks[t], FailedEv("transcription_failed"))
    /\ UNCHANGED <<ab, connOpen, sess, sessions, vadMap, vad, conv, nextId, msgs,
                   regVars, aux>>

\* select takes <-ctx.Done(): failed(transcription_timeout), then return.
TaskTimeout(t) ==
    /\ Running(t) /\ tasks[t].pc = "select" /\ tasks[t].ctxDone
    /\ TaskWrites(t, tasks[t], FailedEv("transcription_timeout"))
    /\ UNCHANGED <<ab, connOpen, sess, sessions, vadMap, vad, conv, nextId, msgs,
                   regVars, aux>>

\* select takes a chunk from resultChan: accumulate, write the delta.  A
\* chunk is seen by nobody before the select takes it, so the provider's
\* send is taken together with the receive.
TaskRecv(t) ==
    /\ Running(t) /\ tasks[t].pc = "select"
    /\ ~tasks[t].chanClosed /\ TotalSent < MaxChunks
    /\ \E text \in Texts :
          LET tk == [tasks[t] EXCEPT !.sent = @ + 1,
                                     !.full = AccumulateTranscript(@, text)]
          IN  TaskWrites(t, tk,
                         Ev("conversation.item.input_audio_transcription.delta",
                            t, 0, text, ""))
    /\ UNCHANGED <<ab, connOpen, sess, sessions, vadMap, vad, conv, nextId, msgs,
                   regVars, aux>>

\* select finds resultChan closed and drained: goto done, write completed.
TaskEOS(t) ==
    /\ Running(t) /\ tasks[t].pc = "select" /\ tasks[t].chanClosed
    /\ TaskWrites(t, tasks[t],
                  Ev("conversation.item.input_audio_transcription.completed",
                     t, 0, tasks[t].full, ""))
    /\ UNCHANGED <<ab, connOpen, sess, sessions, vadMap, vad, conv, nextId, msgs,
                   regVars, aux>>

\* The task's WriteJSON returns; its result is ignored.
TaskWriteEnd(t) ==
    /\ Running(t) /\ tasks[t].pc = "write"
    /\ writing' = writing \ {t}
    /\ tasks' = [tasks EXCEPT ![t].pc = tasks[t].next]
    /\ UNCHANGED <<ab, connOpen, sess, sessions, vadMap, vad, conv, wire, nextId,
                   msgs, lateWrite, regVars,
                   aux>>

\* The patch of the item's transcript after completed, then return.
TaskPatch(t) ==
    /\ Running(t) /\ tasks[t].pc = "patch"
    /\ conv' = PatchTranscript(conv, t, tasks[t].full)
    /\ tasks' = [tasks EXCEPT ![t].pc = "done"]
    /\ UNCHANGED <<ab, connOpen, sess, sessions, vadMap, vad, wire, writing,
                   nextId, msgs, lateWrite, regVars,
                   aux>>

\* The provider's goroutine returns (its stream is over, or it saw the
\* context done) and its deferred close(resultChan) runs.  Only the select
\* observes the close, so it is taken while the task is at the select.
ProvClose(t) ==
    /\ Running(t) /\ tasks[t].pc = "select"
    /\ ~tasks[t].chanClosed
    /\ tasks' = [tasks EXCEPT ![t].chanClosed = TRUE]
    /\ UNCHANGED <<ab, connOpen, sess, sessions, vadMap, vad, conv, wire, writing,
                   nextId, msgs, lateWrite, regVars,
                   aux>>

\* The timeout of context.WithTimeout(context.Background(), ...) fires.  Only
\* the select observes ctx.Done(), so it is taken while the task is there.
Deadline(t) ==
    /\ Running(t) /\ tasks[t].pc = "select" /\ ~tasks[t].ctxDone
    /\ tasks' = [tasks EXCEPT ![t].ctxDone = TRUE,
                              ![t].expiredEarly = ~tasks[t].chanClosed]
    /\ UNCHANGED <<ab, connOpen, sess, sessions, vadMap, vad, conv, wire, writing,
                   nextId, msgs, lateWrite, regVars,
                   aux>>

ItemIds == 1 .. (2 * MaxMsgs)

Next ==
    \/ ConnFail
    \/ SessCreate
    \/ SessGreeted
    \/ \E chunk \in Chunks : SessReadAppend(chunk)
    \/ SessReadCommit
    \/ SessReadClear
    \/ SessReadFail
    \/ SessWriteBegin
    \/ SessWriteEnd
    \/ SessAddItem
    \/ SessSpawn
    \/ SessClear
    \/ SessCleanup
    \/ \E t \in ItemIds : TaskTranscribe(t)
    \/ \E t \in ItemIds : TaskTimeout(t)
    \/ \E t \in ItemIds : TaskRecv(t)
    \/ \E t \in ItemIds : TaskEOS(t)
    \/ \E t \in ItemIds : TaskWriteEnd(t)
    \/ \E t \in ItemIds : TaskPatch(t)
    \/ \E t \in ItemIds : ProvClose(t)
    \/ \E t \in ItemIds : Deadline(t)

(***************************************************************************)
(* Specifications                                                          *)
(***************************************************************************)
(***************************************************************************)
(* SpecScen: two scripted clients.  S2 fills a capped buffer past its cap; *)
(* S4 feeds silence, a tone and silence to the VAD.  A handler runs as one *)
(* step here: the session task handles its messages one after another.    *)
(***************************************************************************)
\* S2 in bytes: the configured cap, what the client appends in all, and the
\* size of the append it makes after that.
S2 == [cap |-> 1024, total |-> 2048, extra |-> 100]

\* The sizes the S2 client cuts its appends to.
S2ChunkBytes == {32, 64, 128, 256, 512, 1024, 100, 600, 900}

\* S4: the segments the client feeds, and the sizes it cuts them to.
S4Segments ==
    <<[amp |-> 0, ms |-> 300], [amp |-> 600, ms |-> 1000], [amp |-> 0, ms |-> 800]>>

S4ChunkBytes == {80, 960, 4800}

\* Bytes of ms milliseconds of PCM16 mono audio.
BytesOfMs(ms) == (ms * SampleRate * 2) \div 1000

S4Bytes(k) == BytesOfMs(S4Segments[k].ms)

S4TotalBytes == S4Bytes(1) + S4Bytes(2) + S4Bytes(3)

\* The amplitude of the S4 audio at byte offset off.
S4AmpAt(off) ==
    IF off < S4Bytes(1) THEN S4Segments[1].amp
    ELSE IF off < S4Bytes(1) + S4Bytes(2) THEN S4Segments[2].amp
    ELSE S4Segments[3].amp

\* domain.VADConfigFromTurnDetection; thresholds are kept in thousandths and
\* an absent idle timeout is 0.
VADConfigFromTurnDetection(td) ==
    [Threshold |-> td.Threshold,
     PrefixPaddingMs |-> td.PrefixPaddingMs,
     SilenceDurationMs |-> td.SilenceDurationMs,
     IdleTimeoutMs |-> td.IdleTimeoutMs,
     SampleRate |-> SampleRate]

\* The turn detection of domain.NewSession.
DefaultTurnDetection ==
    [Type |-> "server_vad",
     Threshold |-> DefaultThresholdMilli,
     PrefixPaddingMs |-> DefaultPrefixPaddingMs,
     SilenceDurationMs |-> DefaultSilenceDurationMs,
     IdleTimeoutMs |-> 0]

\* The turn detection the S4 client sets with session.update before it
\* appends: server_vad, threshold 0.5, silence_duration_ms 500.
S4TurnDetection ==
    [DefaultTurnDetection EXCEPT !.PrefixPaddingMs = 0, !.SilenceDurationMs = 500]

NoScen ==
    [name |-> "none", size |-> 0, sent |-> 0, phase |-> "none", rej |-> 0,
     extraErr |-> FALSE, item |-> 0]

\* The bytes lo+1 .. hi of the client's stream, each named by its position.
Stretch(lo, hi) == [i \in 1 .. (hi - lo) |-> lo + i]

\* A handler's steps taken in one go by the session task.
RECURSIVE RunOps(_, _)
RunOps(ops, st) ==
    IF ops = <<>> THEN st
    ELSE LET o == Head(ops)
             st1 == IF o.k = "w"
                    THEN [st EXCEPT !.wire = WriteJSON(@, 0, o.ev)]
                    ELSE IF o.k = "add"
                    THEN [st EXCEPT !.conv = AddItem(@, o.item, NewAudioItem(o.audio))]
                    ELSE IF o.k = "spawn"
                    THEN [st EXCEPT !.tasks = (o.item :> NewTask) @@ @]
                    ELSE [st EXCEPT !.ab = AbClear(@)]
         IN  RunOps(Tail(ops), st1)

notS2 == <<bufLog, regVars, connOpen, writing, msgs, lateWrite, vlog, scfg, lastMsg,
          currentResponse, vproc>>

\* The S2 client connects: the session is made with the cap of S2 and
\* session.created is written.
S2Start ==
    /\ scen.name = "none" /\ sess.pc = "new"
    /\ \E size \in S2ChunkBytes :
          scen' = [NoScen EXCEPT !.name = "S2", !.size = size, !.phase = "main"]
    /\ sessions' = sessions \cup {SID}
    /\ ab' = AbSetMaxSize(NewAudioBuffer, S2.cap)
    /\ wire' = WriteJSON(wire, 0, Ev("session.created", 0, 0, <<>>, ""))
    /\ sess' = [sess EXCEPT !.pc = "read"]
    /\ UNCHANGED <<vadMap, vad, vcfg, conv, tasks, nextId, notS2>>

\* handleInputAudioBufferAppend for data, whose audio is silence.
S2Handle(data, isExtra) ==
    LET err == AbAppendErr(ab, data)
        v0 == IF vadMap THEN vad ELSE NewSimpleVADProvider
        c0 == IF vadMap THEN vcfg ELSE VADConfigFromTurnDetection(DefaultTurnDetection)
    IN  /\ ab' = AbAppend(ab, data)
        /\ wire' = IF err
                   THEN RunOps(ErrorOps("buffer_full"),
                               [ab |-> ab, conv |-> conv, wire |-> wire,
                                tasks |-> tasks]).wire
                   ELSE wire
        /\ IF err THEN UNCHANGED <<vadMap, vad, vcfg>>
           ELSE /\ vadMap' = TRUE
                /\ vcfg' = c0
                /\ vad' = VadProcessAudio(v0, c0, <<0>>, Len(data), FALSE)
        /\ scen' = [scen EXCEPT
                       !.sent = @ + Len(data),
                       !.rej = IF err /\ ~isExtra THEN @ + 1 ELSE @,
                       !.extraErr = IF isExtra THEN err ELSE @,
                       !.phase = IF isExtra THEN "commit"
                                 ELSE IF scen.sent + Len(data) = S2.total
                                 THEN "extra" ELSE "main"]
        /\ UNCHANGED <<sessions, sess, conv, tasks, nextId, notS2>>

\* The next of the appends that total S2.total bytes.
S2Append ==
    /\ scen.name = "S2" /\ scen.phase = "main"
    /\ LET hi == IF scen.sent + scen.size > S2.total THEN S2.total
                 ELSE scen.sent + scen.size
       IN  S2Handle(Stretch(scen.sent, hi), FALSE)

\* The append of S2.extra more bytes.
S2Extra ==
    /\ scen.name = "S2" /\ scen.phase = "extra"
    /\ S2Handle(Stretch(scen.sent, scen.sent + S2.extra), TRUE)

\* handleInputAudioBufferCommit
S2Commit ==
    /\ scen.name = "S2" /\ scen.phase = "commit"
    /\ LET ops == IF AbIsEmpty(ab) THEN ErrorOps("empty_buffer")
                  ELSE CommitOps(nextId, AbCommitData(ab), Last(conv.Order))
                       \o <<OpClear>>
           st == RunOps(ops, [ab |-> IF AbIsEmpty(ab) THEN ab ELSE AbCommit(ab),
                              conv |-> conv, wire |-> wire, tasks |-> tasks])
       IN  /\ ab' = st.ab /\ conv' = st.conv /\ wire' = st.wire /\ tasks' = st.tasks
           /\ nextId' = IF AbIsEmpty(ab) THEN nextId ELSE nextId + 1
           /\ scen' = [scen EXCEPT !.phase = "done",
                                   !.item = IF AbIsEmpty(ab) THEN 0 ELSE nextId]
    /\ UNCHANGED <<sessions, sess, vadMap, vad, vcfg, notS2>>

notS4 == <<bufVars, regVars, sessNoVad, scfg, lastMsg, currentResponse, vproc>>

\* The S4 client has set its turn detection; the VAD is made from it when
\* the first append arrives.
S4Start ==
    /\ scen.name = "none" /\ sess.pc = "new"
    /\ \E size \in S4ChunkBytes :
          scen' = [NoScen EXCEPT !.name = "S4", !.size = size, !.phase = "main"]
    /\ vcfg' = VADConfigFromTurnDetection(S4TurnDetection)
    /\ vad' = NewSimpleVADProvider
    /\ UNCHANGED <<vlog, notS4>>

\* The next chunk of the S4 audio goes through ProcessAudio.
S4Feed ==
    /\ scen.name = "S4" /\ scen.sent < S4TotalBytes
    /\ LET chunk == <<S4AmpAt(scen.sent)>>
           w == VadProcessAudio(vad, vcfg, chunk, scen.size,
                                EnergyAbove(chunk, vcfg))
           utt == UttAfter(vlog.utt, vad, w, chunk)
           new == SubSeq(w.events, Len(vad.events) + 1, Len(w.events))
       IN  /\ vad' = w
           /\ vlog' = [vlog EXCEPT
                          !.stream = @ \o LogAll(new, utt, vcfg.Threshold),
                          !.utt = utt]
    /\ scen' = [scen EXCEPT !.sent = @ + scen.size]
    /\ UNCHANGED <<vcfg, notS4>>

ScenInit == scen = NoScen

ScenNext == S2Start \/ S2Append \/ S2Extra \/ S2Commit \/ S4Start \/ S4Feed

(***************************************************************************)
(* SpecMsg: one session's inbound messages, handled one after the other.   *)
(* A handler runs as one step; the transcriptions it starts are the        *)
(* subject of Spec and stay where they were started here.                  *)
(***************************************************************************)
\* A pointer field: <<>> is nil, <<r>> points to r.
Nil == <<>>

Ptr(r) == <<r>>

\* domain.NewSession, the fields UpdateSession can touch that are kept here.
NewSession ==
    [Instructions |-> "default",
     Format |-> Ptr([Type |-> "audio/pcm", Rate |-> SampleRate]),
     Transcription |-> Nil,
     TurnDetection |-> Ptr(DefaultTurnDetection)]

\* Session payloads of session.update as json.Unmarshal decodes them: an
\* absent string is "", an absent object is nil.
NoUpdate ==
    [Instructions |-> "", Format |-> Nil, Transcription |-> Nil,
     TurnDetection |-> Nil]

UpdModel ==
    [NoUpdate EXCEPT !.Transcription = Ptr([Model |-> "whisper-1", Language |-> "id"])]

UpdLanguageOnly ==
    [NoUpdate EXCEPT !.Transcription = Ptr([Model |-> "", Language |-> "en"])]

UpdTurnDetection == [NoUpdate EXCEPT !.TurnDetection = Ptr(S4TurnDetection)]

UpdNoVad ==
    [NoUpdate EXCEPT !.TurnDetection = Ptr([DefaultTurnDetection EXCEPT !.Type = ""])]

UpdInstructions == [NoUpdate EXCEPT !.Instructions = "brief"]

\* audio.input.format with a rate of 16 kHz.
UpdFormat == [NoUpdate EXCEPT !.Format = Ptr([Type |-> "audio/pcm", Rate |-> 16000])]

Updates ==
    {UpdModel, UpdLanguageOnly, UpdTurnDetection, UpdNoVad, UpdInstructions,
     UpdFormat}

\* SessionManager.UpdateSession on the fields kept here: a non-empty string
\* overrides, a non-nil object replaces the stored object whole.
UpdateSession(c, updates) ==
    [Instructions |-> IF updates.Instructions # "" THEN updates.Instructions
                      ELSE c.Instructions,
     Format |-> IF updates.Format # Nil THEN updates.Format ELSE c.Format,
     Transcription |-> IF updates.Transcription # Nil THEN updates.Transcription
                       ELSE c.Transcription,
     TurnDetection |-> IF updates.TurnDetection # Nil THEN updates.TurnDetection
                       ELSE c.TurnDetection]

\* An inbound message: its type, the event_id of its envelope, whether its
\* payload decodes into the handler's struct, and the payload.
Msg(kind, eid, ok, session, audio, chunk) ==
    [kind |-> kind, eid |-> eid, ok |-> ok, session |-> session, audio |-> audio,
     chunk |-> chunk, item |-> Nil, itemId |-> 0, prev |-> 0]

NoMsg == Msg("none", "", TRUE, Nil, "", <<>>)

EventIds == {"", "evt_1"}

\* Audio of the appends that decode: one silent block, two loud blocks.
MsgChunks == {<<0>>, <<600, 600>>}

UpdateMsgs ==
    {Msg("session.update", "evt_1", TRUE, Ptr(u), "", <<>>) : u \in Updates}
        \cup {Msg("session.update", "evt_1", TRUE, Nil, "", <<>>),
              Msg("session.update", "evt_1", FALSE, Nil, "", <<>>)}

AppendMsgs ==
    {Msg("input_audio_buffer.append", e, TRUE, Nil, "base64", c) :
        e \in EventIds, c \in MsgChunks}
        \cup {Msg("input_audio_buffer.append", "evt_1", TRUE, Nil, a, <<>>) :
                 a \in {"", "not-base64"}}
        \cup {Msg("input_audio_buffer.append", "evt_1", FALSE, Nil, "", <<>>)}

CommitMsgs == {Msg("input_audio_buffer.commit", "evt_1", TRUE, Nil, "", <<>>)}

ClearMsgs == {Msg("input_audio_buffer.clear", "evt_1", TRUE, Nil, "", <<>>)}

\* Bytes that json.Unmarshal does not decode into a BaseEvent.
InvalidMsgs == {Msg("not-json", "", FALSE, Nil, "", <<>>)}

\* An envelope whose type no case of ProcessMessage names.
UnknownMsgs == {Msg("no.such.type", e, TRUE, Nil, "", <<>>) : e \in EventIds}

\* An item ID a client chooses itself (0 stands for an absent or empty ID).
ClientItemId == 101

\* conversation.item.create: without an item; or with an item that has no
\* ID or the client's ID, and with or without previous_item_id.
ItemCreateMsgs ==
    {[Msg("conversation.item.create", "evt_1", TRUE, Nil, "", <<>>)
         EXCEPT !.item = Ptr([id |-> i]), !.prev = q] :
        i \in {0, ClientItemId}, q \in {0, ClientItemId}}
        \cup {Msg("conversation.item.create", "evt_1", TRUE, Nil, "", <<>>)}

\* conversation.item.delete: without item_id, with the client's ID, with the
\* first ID the server generated.
ItemDeleteMsgs ==
    {[Msg("conversation.item.delete", "evt_1", TRUE, Nil, "", <<>>)
         EXCEPT !.itemId = i] : i \in {0, ClientItemId, 1}}

ResponseCreateMsgs == {Msg("response.create", "evt_1", TRUE, Nil, "", <<>>)}

ResponseCancelMsgs == {Msg("response.cancel", "evt_1", TRUE, Nil, "", <<>>)}

\* The session's state as the handlers see it.
CurSt ==
    [ab |-> ab, conv |-> conv, scfg |-> scfg, vadMap |-> vadMap, vad |-> vad,
     vcfg |-> vcfg, nextId |-> nextId, wire |-> wire, tasks |-> tasks,
     currentResponse |-> currentResponse]

\* sendError: the error event carries clientEventID in error.event_id.
SendError(st, clientEventID, code) ==
    [st EXCEPT !.wire = WriteJSON(@, 0, [Ev("error", 0, 0, <<>>, code)
                                            EXCEPT !.eid = clientEventID])]

\* A ProcessMessage whose error branches also empty the audio buffer.
RejectClears(st, clientEventID, code) ==
    [SendError(st, clientEventID, code) EXCEPT !.ab = AbClear(@)]

\* ProcessMessage's two error branches: the BaseEvent does not decode, or
\* its type is unknown.
Reject(st, clientEventID, code) == SendError(st, clientEventID, code)

\* handleSessionUpdate
HandleSessionUpdate(st, m) ==
    IF ~m.ok THEN SendError(st, "", "invalid_event")
    ELSE IF m.session = Nil THEN SendError(st, m.eid, "missing_field")
    ELSE LET c == UpdateSession(st.scfg, m.session[1])
         IN  [st EXCEPT !.scfg = c,
                        !.wire = WriteJSON(@, 0, [Ev("session.updated", 0, 0, <<>>, "")
                                                     EXCEPT !.sess = Ptr(c)])]

\* handleInputAudioBufferAppend
HandleAppend(st, m) ==
    IF ~m.ok THEN SendError(st, "", "invalid_event")
    ELSE IF m.audio = "" THEN SendError(st, m.eid, "missing_field")
    ELSE IF m.audio # "base64" THEN SendError(st, m.eid, "invalid_audio")
    ELSE IF AbAppendErr(st.ab, m.chunk) THEN SendError(st, m.eid, "buffer_full")
    ELSE LET st1 == [st EXCEPT !.ab = AbAppend(@, m.chunk)]
             td == st.scfg.TurnDetection
         IN  IF td = Nil \/ td[1].Type = "" THEN st1
             ELSE LET c0 == IF st.vadMap THEN st.vcfg
                            ELSE VADConfigFromTurnDetection(td[1])
                      v0 == IF st.vadMap THEN st.vad ELSE NewSimpleVADProvider
                      v1 == VadProcessAudio(v0, c0, m.chunk,
                                            Len(m.chunk) * BlockBytes,
                                            EnergyAbove(m.chunk, c0))
                  IN  RunOps(VadOps(v1.events, st.nextId, st.conv.Order),
                             [st1 EXCEPT !.vadMap = TRUE, !.vcfg = c0,
                                         !.vad = [v1 EXCEPT !.events = <<>>],
                                         !.nextId = @ + Len(v1.events)])

\* handleInputAudioBufferCommit
HandleCommit(st, m) ==
    IF ~m.ok THEN SendError(st, "", "invalid_event")
    ELSE IF AbIsEmpty(st.ab) THEN SendError(st, m.eid, "empty_buffer")
    ELSE RunOps(CommitOps(st.nextId, AbCommitData(st.ab), Last(st.conv.Order))
                    \o <<OpClear>>,
                [st EXCEPT !.ab = AbCommit(@), !.nextId = @ + 1])

\* handleInputAudioBufferClear
HandleClear(st, m) ==
    IF ~m.ok THEN SendError(st, "", "invalid_event")
    ELSE [st EXCEPT !.ab = AbClear(@),
                    !.wire = WriteJSON(@, 0, Ev("input_audio_buffer.cleared", 0, 0,
                                                <<>>, ""))]

\* The item a client sends, and the assistant item of a response: no audio.
NewTextItem == [audio |-> <<>>, transcript |-> <<>>]

\* ConversationState.DeleteItem for an ID that is in the map: delete it from
\* the map and cut its first occurrence out of the order.
DeleteItem(cs, id) ==
    LET at == {i \in DOMAIN cs.Order : cs.Order[i] = id}
        first == CHOOSE i \in at : \A j \in at : i <= j
    IN  [Items |-> [x \in DOMAIN cs.Items \ {id} |-> cs.Items[x]],
         Order |-> IF at = {} THEN cs.Order
                   ELSE SubSeq(cs.Order, 1, first - 1)
                        \o SubSeq(cs.Order, first + 1, Len(cs.Order))]

\* handleConversationItemCreate: the event carries the client's
\* previous_item_id.
HandleItemCreate(st, m) ==
    IF ~m.ok THEN SendError(st, "", "invalid_event")
    ELSE IF m.item = Nil THEN SendError(st, m.eid, "missing_field")
    ELSE LET gen == m.item[1].id = 0
             id == IF gen THEN st.nextId ELSE m.item[1].id
         IN  [st EXCEPT !.nextId = IF gen THEN @ + 1 ELSE @,
                        !.conv = AddItem(@, id, NewTextItem),
                        !.wire = WriteJSON(@, 0, Ev("conversation.item.created", id,
                                                    m.prev, <<>>, ""))]

\* handleConversationItemDelete
HandleItemDelete(st, m) ==
    IF ~m.ok THEN SendError(st, "", "invalid_event")
    ELSE IF m.itemId = 0 THEN SendError(st, m.eid, "missing_field")
    ELSE IF ~HasItem(st.conv, m.itemId) THEN SendError(st, m.eid, "item_not_found")
    ELSE [st EXCEPT !.conv = DeleteItem(@, m.itemId),
                    !.wire = WriteJSON(@, 0, Ev("conversation.item.deleted", m.itemId,
                                                0, <<>>, ""))]

\* domain.NewResponse
NewResponse(id) == [id |-> id, status |-> "in_progress"]

\* An event that carries a response as it is when the event is written.
RespEv(type, r) == [Ev(type, 0, 0, <<>>, "") EXCEPT !.resp = r]

RECURSIVE WriteAll(_, _)
WriteAll(w, evs) ==
    IF evs = <<>> THEN w ELSE WriteAll(WriteJSON(w, 0, Head(evs)), Tail(evs))

\* handleResponseCreate: the mock response runs to completed and stays the
\* session's current response; its assistant item joins the conversation.
HandleResponseCreate(st, m) ==
    IF ~m.ok THEN SendError(st, "", "invalid_event")
    ELSE LET response == NewResponse(st.nextId)
             item == st.nextId + 1
             done == [response EXCEPT !.status = "completed"]
         IN  [st EXCEPT
                 !.nextId = @ + 2,
                 !.currentResponse = Ptr(done),
                 !.wire = WriteAll(@,
                     <<RespEv("response.created", Ptr(response)),
                       Ev("response.output_item.added", item, 0, <<>>, ""),
                       Ev("response.content_part.added", item, 0, <<>>, ""),
                       Ev("response.output_text.delta", item, 0, <<"mock">>, ""),
                       Ev("response.output_text.done", item, 0, <<"mock">>, ""),
                       Ev("response.output_item.done", item, 0, <<>>, ""),
                       RespEv("response.done", Ptr(done))>>),
                 !.conv = AddItem(@, item, NewTextItem)]

\* handleResponseCancel: the status is set, CurrentResponse is set to nil,
\* and response.done is built from CurrentResponse after that.
HandleResponseCancel(st, m) ==
    IF ~m.ok THEN SendError(st, "", "invalid_event")
    ELSE IF st.currentResponse = Nil THEN SendError(st, m.eid, "no_active_response")
    ELSE LET after == [st EXCEPT !.currentResponse = Nil]
         IN  [after EXCEPT
                 !.wire = WriteJSON(@, 0, RespEv("response.done", after.currentResponse))]

\* ProcessMessage
ProcessMessage(st, m) ==
    IF m.kind = "not-json" THEN Reject(st, "", "invalid_json")
    ELSE IF m.kind = "session.update" THEN HandleSessionUpdate(st, m)
    ELSE IF m.kind = "input_audio_buffer.append" THEN HandleAppend(st, m)
    ELSE IF m.kind = "input_audio_buffer.commit" THEN HandleCommit(st, m)
    ELSE IF m.kind = "input_audio_buffer.clear" THEN HandleClear(st, m)
    ELSE IF m.kind = "conversation.item.create" THEN HandleItemCreate(st, m)
    ELSE IF m.kind = "conversation.item.delete" THEN HandleItemDelete(st, m)
    ELSE IF m.kind = "response.create" THEN HandleResponseCreate(st, m)
    ELSE IF m.kind = "response.cancel" THEN HandleResponseCancel(st, m)
    ELSE Reject(st, m.eid, "unknown_event_type")

\* What is remembered of the messages handled so far: the last one, the
\* state it found, how many messages did not decode or had an unknown type,
\* and the state of a session that was sent the same messages without those.
NoLast == [m |-> NoMsg, pre |-> Nil, bad |-> 0, twin |-> Nil]

notMsg == <<bufLog, regVars, connOpen, writing, lateWrite, vlog, scen, vproc>>

\* HandleNewConnection up to the read loop.
MsgConnect ==
    /\ sess.pc = "new" /\ scen.name = "none"
    /\ sessions' = sessions \cup {SID}
    /\ ab' = AbSetMaxSize(NewAudioBuffer, SessCap)
    /\ wire' = WriteJSON(wire, 0, Ev("session.created", 0, 0, <<>>, ""))
    /\ sess' = [sess EXCEPT !.pc = "read"]
    /\ lastMsg' = [NoLast EXCEPT
                      !.twin = Ptr([CurSt EXCEPT !.ab = ab', !.wire = wire'])]
    /\ UNCHANGED <<scfg, vadMap, vad, vcfg, conv, tasks, nextId, msgs,
                   currentResponse, notMsg>>

\* ReadMessage returns m and ProcessMessage(m) runs to its end; the client
\* sends at most max messages.
DeliverUpTo(m, max) ==
    /\ lastMsg.twin # Nil /\ msgs < max
    /\ msgs' = msgs + 1
    /\ LET st == ProcessMessage(CurSt, m)
           isBad == m \in InvalidMsgs \cup UnknownMsgs
       IN  /\ ab' = st.ab /\ conv' = st.conv /\ scfg' = st.scfg
           /\ vadMap' = st.vadMap /\ vad' = st.vad /\ vcfg' = st.vcfg
           /\ nextId' = st.nextId /\ wire' = st.wire /\ tasks' = st.tasks
           /\ currentResponse' = st.currentResponse
           /\ lastMsg' = [m |-> m, pre |-> Ptr(CurSt),
                          bad |-> lastMsg.bad + (IF isBad THEN 1 ELSE 0),
                          twin |-> IF isBad THEN lastMsg.twin
                                   ELSE Ptr(ProcessMessage(lastMsg.twin[1], m))]
    /\ UNCHANGED <<sessions, sess, notMsg>>

Deliver(m) == DeliverUpTo(m, MaxMsgs)

MsgSessionUpdate ==
    /\ sess.pc = "read"
    /\ \E m \in UpdateMsgs : Deliver(m)

MsgAppend ==
    /\ sess.pc = "read"
    /\ \E m \in AppendMsgs : Deliver(m)

MsgCommit ==
    /\ sess.pc = "read"
    /\ \E m \in CommitMsgs : Deliver(m)

MsgClear ==
    /\ sess.pc = "read"
    /\ \E m \in ClearMsgs : Deliver(m)

MsgInvalidJSON ==
    /\ sess.pc = "read"
    /\ \E m \in InvalidMsgs : Deliver(m)

MsgUnknownType ==
    /\ sess.pc = "read"
    /\ \E m \in UnknownMsgs : Deliver(m)

MsgItemCreate ==
    /\ sess.pc = "read"
    /\ \E m \in ItemCreateMsgs : Deliver(m)

MsgItemDelete ==
    /\ sess.pc = "read"
    /\ \E m \in ItemDeleteMsgs : Deliver(m)

MsgResponseCreate ==
    /\ sess.pc = "read"
    /\ \E m \in ResponseCreateMsgs : Deliver(m)

MsgResponseCancel ==
    /\ sess.pc = "read"
    /\ \E m \in ResponseCancelMsgs : Deliver(m)

MsgInit == scfg = NewSession /\ lastMsg = NoLast /\ currentResponse = Nil

MsgNext ==
    \/ MsgConnect
    \/ MsgSessionUpdate \/ MsgAppend \/ MsgCommit \/ MsgClear
    \/ MsgInvalidJSON \/ MsgUnknownType

\* The messages that touch the conversation and the current response.
ConvNext ==
    \/ MsgConnect
    \/ MsgAppend \/ MsgCommit
    \/ MsgItemCreate \/ MsgItemDelete
    \/ MsgResponseCreate \/ MsgResponseCancel

(***************************************************************************)
(* SpecClose: goroutines calling ProcessAudio and Close on one             *)
(* SimpleVADProvider.  closeMu is a read/write lock (writer, readers), mu  *)
(* a mutex; the channel content is vad.events.  Each lock and unlock, the  *)
(* test of closed and the send are steps of their own.                     *)
(***************************************************************************)
MaxPaCalls == 3

PaProcs == {"p1", "p2"}

ClProcs == {"c1", "c2"}

NoProc == "none"

\* A Close whose test of closed never finds the provider closed.
CloseNeverSeesClosed(v) == FALSE

\* Close, line 215: if v.closed.
CloseSeesClosed(v) == v.closed

PaIdle == [pc |-> "idle", chunk |-> <<>>, pending |-> <<>>, after |-> FALSE]

VcInit ==
    vproc = [writer |-> NoProc, readers |-> 0, mu |-> NoProc,
             pa |-> [p \in PaProcs |-> PaIdle],
             cl |-> [c \in ClProcs |-> "idle"],
             calls |-> 0, chClosed |-> FALSE, closes |-> 0,
             closeOfClosed |-> FALSE, sendOnClosed |-> FALSE,
             cancelled |-> FALSE, draining |-> FALSE, returned |-> FALSE]

notVc == <<bufVars, regVars, sessNoVad, scfg, lastMsg, scen, currentResponse,
          vcfg, vlog>>

\* A goroutine calls ProcessAudio(ctx, chunk).
PaStart ==
    \E p \in PaProcs :
        /\ vproc.pa[p].pc = "idle"
        /\ vproc.calls < MaxPaCalls
        /\ \E chunk \in Chunks :
              vproc' = [vproc EXCEPT !.calls = @ + 1,
                                     !.pa[p] = [pc |-> "rlock", chunk |-> chunk,
                                                pending |-> <<>>,
                                                after |-> vproc.returned]]
        /\ UNCHANGED <<vad, notVc>>

\* v.closeMu.RLock() at the head of ProcessAudio.
PaRLock ==
    \E p \in PaProcs :
        /\ vproc.pa[p].pc = "rlock"
        /\ vproc.writer = NoProc
        /\ vproc' = [vproc EXCEPT !.readers = @ + 1, !.pa[p].pc = "check"]
        /\ UNCHANGED <<vad, notVc>>

\* if v.closed { RUnlock; return nil }; RUnlock.
PaCheck ==
    \E p \in PaProcs :
        /\ vproc.pa[p].pc = "check"
        /\ vproc' = [vproc EXCEPT !.readers = @ - 1,
                                  !.pa[p].pc = IF vad.closed THEN "idle" ELSE "lock"]
        /\ UNCHANGED <<vad, notVc>>

\* v.mu.Lock().
PaLock ==
    \E p \in PaProcs :
        /\ vproc.pa[p].pc = "lock"
        /\ vproc.mu = NoProc
        /\ vproc' = [vproc EXCEPT !.mu = p, !.pa[p].pc = "body"]
        /\ UNCHANGED <<vad, notVc>>

\* The body of ProcessAudio under mu: the detector's fields change, the
\* events it makes wait for sendEvent.
PaBody ==
    \E p \in PaProcs :
        /\ vproc.pa[p].pc = "body"
        /\ LET chunk == vproc.pa[p].chunk
               w == VadProcessAudio([vad EXCEPT !.closed = FALSE, !.events = <<>>],
                                    vcfg, chunk, Len(chunk) * BlockBytes,
                                    EnergyAbove(chunk, vcfg))
           IN  /\ vad' = [w EXCEPT !.closed = vad.closed, !.events = vad.events]
               /\ vproc' = [vproc EXCEPT
                               !.pa[p].pending = w.events,
                               !.pa[p].pc = IF w.events = <<>> THEN "unlock"
                                            ELSE "send"]
        /\ UNCHANGED notVc

\* sendEvent: v.closeMu.RLock().
SeRLock ==
    \E p \in PaProcs :
        /\ vproc.pa[p].pc = "send"
        /\ vproc.writer = NoProc
        /\ vproc' = [vproc EXCEPT !.readers = @ + 1, !.pa[p].pc = "sending"]
        /\ UNCHANGED <<vad, notVc>>

\* sendEvent: if v.closed return; the non-blocking send; RUnlock.  A send
\* on a closed channel panics.
SeSend ==
    \E p \in PaProcs :
        /\ vproc.pa[p].pc = "sending"
        /\ LET e == Head(vproc.pa[p].pending)
               rest == Tail(vproc.pa[p].pending)
               panics == ~vad.closed /\ vproc.chClosed
           IN  /\ vad' = IF panics THEN vad ELSE VadSendEvent(vad, e)
               /\ vproc' = [vproc EXCEPT
                               !.readers = @ - 1,
                               !.sendOnClosed = @ \/ panics,
                               !.pa[p].pending = rest,
                               !.pa[p].pc = IF rest = <<>> THEN "unlock" ELSE "send"]
        /\ UNCHANGED notVc

\* defer v.mu.Unlock(); ProcessAudio returns.
PaUnlock ==
    \E p \in PaProcs :
        /\ vproc.pa[p].pc = "unlock"
        /\ vproc' = [vproc EXCEPT !.mu = NoProc, !.pa[p].pc = "idle"]
        /\ UNCHANGED <<vad, notVc>>

\* Close: v.closeMu.Lock().
ClLock ==
    \E c \in ClProcs :
        /\ vproc.cl[c] = "idle"
        /\ vproc.writer = NoProc
        /\ vproc.readers = 0
        /\ vproc' = [vproc EXCEPT !.writer = c, !.cl[c] = "locked"]
        /\ UNCHANGED <<vad, notVc>>

\* Close: if v.closed { Unlock; return nil }; v.closed = true; Unlock.
ClCheck ==
    \E c \in ClProcs :
        /\ vproc.cl[c] = "locked"
        /\ IF CloseSeesClosed(vad)
           THEN /\ vproc' = [vproc EXCEPT !.writer = NoProc, !.cl[c] = "done",
                                          !.returned = TRUE]
                /\ vad' = vad
           ELSE /\ vproc' = [vproc EXCEPT !.writer = NoProc, !.cl[c] = "cancel"]
                /\ vad' = VadClose(vad)
        /\ UNCHANGED notVc

\* Close: v.cancel(), and the goroutine that drains the channel starts.
ClCancel ==
    \E c \in ClProcs :
        /\ vproc.cl[c] = "cancel"
        /\ vproc' = [vproc EXCEPT !.cancelled = TRUE, !.draining = TRUE,
                                  !.cl[c] = "close"]
        /\ UNCHANGED <<vad, notVc>>

\* Close: close(v.events); return nil.  Closing a closed channel panics.
ClCloseChan ==
    \E c \in ClProcs :
        /\ vproc.cl[c] = "close"
        /\ vproc' = [vproc EXCEPT !.chClosed = TRUE, !.closes = @ + 1,
                                  !.closeOfClosed = @ \/ vproc.chClosed,
                                  !.cl[c] = "done", !.returned = TRUE]
        /\ UNCHANGED <<vad, notVc>>

\* The draining goroutine takes an event off the channel.
Drain ==
    /\ vproc.draining
    /\ vad.events # <<>>
    /\ vad' = [vad EXCEPT !.events = Tail(@)]
    /\ UNCHANGED <<vproc, notVc>>

CloseNext ==
    \/ PaStart \/ PaRLock \/ PaCheck \/ PaLock \/ PaBody
    \/ SeRLock \/ SeSend \/ PaUnlock
    \/ ClLock \/ ClCheck \/ ClCancel \/ ClCloseChan
    \/ Drain

Init ==
    BufInit /\ RegInit /\ SessInit /\ VadInit /\ ScenInit /\ MsgInit /\ VcInit

SpecBuf == Init /\ [][BufNext]_vars

SpecReg == Init /\ [][RegNext]_vars

Spec == Init /\ [][Next]_vars

SpecVad == Init /\ [][VadNext]_vars

SpecScen == Init /\ [][ScenNext]_vars

SpecMsg == Init /\ [][MsgNext]_vars

SpecConv == Init /\ [][ConvNext]_vars

SpecClose == Init /\ [][CloseNext]_vars

\* A step of a transcription task, of its provider's close or of its
\* deadline.  Goroutines that can run do run, a WriteJSON returns, and the
\* timer of context.WithTimeout fires; the client and the provider's chunks
\* are under no such obligation.
TaskStep ==
    \E t \in ItemIds :
        \/ TaskTranscribe(t) \/ TaskTimeout(t) \/ TaskEOS(t)
        \/ TaskWriteEnd(t) \/ TaskPatch(t)
        \/ ProvClose(t) \/ Deadline(t)

\* The connection of Spec with a client that sends at most MaxLiveMsgs
\* messages.
MaxLiveMsgs == 2

LiveReadAppend ==
    /\ msgs < MaxLiveMsgs
    /\ \E chunk \in Chunks : SessReadAppend(chunk)

LiveReadCommit ==
    /\ msgs < MaxLiveMsgs
    /\ SessReadCommit

LiveReadClear ==
    /\ msgs < MaxLiveMsgs
    /\ SessReadClear

LiveNext ==
    \/ ConnFail
    \/ SessCreate
    \/ SessGreeted
    \/ LiveReadAppend
    \/ LiveReadCommit
    \/ LiveReadClear
    \/ SessReadFail
    \/ SessWriteBegin
    \/ SessWriteEnd
    \/ SessAddItem
    \/ SessSpawn
    \/ SessClear
    \/ SessCleanup
    \/ \E t \in ItemIds : TaskTranscribe(t)
    \/ \E t \in ItemIds : TaskTimeout(t)
    \/ \E t \in ItemIds : TaskRecv(t)
    \/ \E t \in ItemIds : TaskEOS(t)
    \/ \E t \in ItemIds : TaskWriteEnd(t)
    \/ \E t \in ItemIds : TaskPatch(t)
    \/ \E t \in ItemIds : ProvClose(t)
    \/ \E t \in ItemIds : Deadline(t)

SpecLive == Init /\ [][LiveNext]_vars /\ WF_vars(TaskStep)

\* The message loop with the transcription tasks it starts running beside
\* it, and a client that appends speech, commits, deletes items by the IDs
\* the server gave them and creates items under IDs of its own choice, those
\* IDs among them.
MaxPatchMsgs == 4

ServerItemIds == {1, 2}

PatchAppend ==
    /\ sess.pc = "read"
    /\ DeliverUpTo(Msg("input_audio_buffer.append", "evt_1", TRUE, Nil, "base64",
                       <<600, 600>>), MaxPatchMsgs)

PatchCommit ==
    /\ sess.pc = "read"
    /\ \E m \in CommitMsgs : DeliverUpTo(m, MaxPatchMsgs)

PatchItemCreate ==
    /\ sess.pc = "read"
    /\ \E i \in {0} \cup ServerItemIds :
          DeliverUpTo([Msg("conversation.item.create", "evt_1", TRUE, Nil, "", <<>>)
                          EXCEPT !.item = Ptr([id |-> i])], MaxPatchMsgs)

PatchItemDelete ==
    /\ sess.pc = "read"
    /\ \E i \in ServerItemIds :
          DeliverUpTo([Msg("conversation.item.delete", "evt_1", TRUE, Nil, "", <<>>)
                          EXCEPT !.itemId = i], MaxPatchMsgs)

PatchNext ==
    \/ MsgConnect
    \/ PatchAppend \/ PatchCommit
    \/ PatchItemCreate \/ PatchItemDelete
    \/ \E t \in ItemIds : TaskTranscribe(t)
    \/ \E t \in ItemIds : TaskTimeout(t)
    \/ \E t \in ItemIds : TaskRecv(t)
    \/ \E t \in ItemIds : TaskEOS(t)
    \/ \E t \in ItemIds : TaskWriteEnd(t)
    \/ \E t \in ItemIds : TaskPatch(t)
    \/ \E t \in ItemIds : ProvClose(t)
    \/ \E t \in ItemIds : Deadline(t)

SpecPatch == Init /\ [][PatchNext]_vars

(***************************************************************************)
(* C1: for a buffer with cap > 0, after any sequence of Append, Commit,    *)
(* Clear and SetMaxSize calls the buffer size never exceeds the cap.       *)
(* SetMaxSize stores a cap below the current size without touching Data.   *)
(***************************************************************************)
C1_SizeWithinCap == ab.maxSize > 0 => AbGetSize(ab) <= ab.maxSize

\* C11: Append of b succeeds exactly when cap = 0 or size + |b| <= cap, so an
\* append that fills the buffer exactly to its cap succeeds; a rejected
\* Append leaves bytes, size, committed flag, speech timings and cap as they
\* were just before the call.
C11_AppendAllOrNothing ==
    bufLog.op = "Append"
        => LET pre == bufLog.pre
               fits == pre.maxSize = 0
                       \/ Len(pre.Data) + Len(bufLog.data) <= pre.maxSize
           IN  /\ bufLog.err <=> ~fits
               /\ bufLog.err => ab = pre
               /\ ~bufLog.err => ab.Data = pre.Data \o bufLog.data

\* A committed buffer filled exactly to its cap has just rejected an Append
\* of at least one byte.
C11_Witness ==
    /\ bufLog.op = "Append" /\ bufLog.err /\ bufLog.data # <<>>
    /\ ab.maxSize > 0 /\ Len(ab.Data) = ab.maxSize
    /\ ab.committed

ReturnedFor(m) ==
    {c \in Callers : /\ gm[c].pc = "idle"
                     /\ gm[c].valid
                     /\ gm[c].name = m
                     /\ gm[c].startEpoch = epoch}

\* Two callers whose latest calls were in flight at the same time.
Concurrent(c1, c2) == c1 # c2 /\ c2 \in gm[c1].with /\ c1 \in gm[c2].with

\* C5 as stated: concurrent GetModel calls for one configured model with a
\* supported language, no Close in between: the creator is invoked exactly
\* once and every caller receives the same handle.
C5_ExactlyOneCreation ==
    \A m \in ModelNames : \A c1, c2 \in ReturnedFor(m) :
        Concurrent(c1, c2) =>
            /\ epochCreates[m] = 1
            /\ ~gm[c1].err
            /\ ~gm[c2].err
            /\ gm[c1].ret = gm[c2].ret

\* C5 amended: the same, for a model whose provider type has a registered
\* creator and whose creator has not failed since the last Close.
C5_ExactlyOneCreationIfCreatorSucceeds ==
    \A m \in ModelNames : \A c1, c2 \in ReturnedFor(m) :
        ( /\ Concurrent(c1, c2)
          /\ RegModels[m].Provider \in RegisteredTypes
          /\ epochFails[m] = 0 ) =>
            /\ epochCreates[m] = 1
            /\ ~gm[c1].err
            /\ ~gm[c2].err
            /\ gm[c1].ret = gm[c2].ret

\* Two concurrent calls for one model have both returned the one handle.
C5_Witness ==
    \E m \in ModelNames : \E c1, c2 \in ReturnedFor(m) :
        /\ Concurrent(c1, c2)
        /\ epochFails[m] = 0
        /\ epochCreates[m] = 1
        /\ gm[c1].ret = loadedModels[m]
        /\ gm[c2].ret = loadedModels[m]
        /\ loadedModels[m] # 0

\* C6 as stated: over the registry's whole lifetime, Close and failed
\* constructions included, a model name is constructed at most once.
C6_AtMostOnceEver == \A m \in ModelNames : totalOK[m] <= 1

\* C6 amended: a model name is constructed at most once between two Close
\* calls (after Close the next GetModel constructs it again).
C6_AtMostOncePerEpoch == \A m \in ModelNames : epochOK[m] <= 1

\* A model constructed, closed, and constructed again.
C6_Witness ==
    \E m \in ModelNames : totalOK[m] = 2 /\ epochOK[m] = 1 /\ loadedModels[m] # 0

\* C21: when the creator fails inside GetModel the caller gets the error and
\* no provider, the model is not recorded as loaded, and a GetModel that
\* finds the model not loaded (a later one for the same name included)
\* invokes the creator again.
C21_FailedCreatorNotCached ==
    [][\A c \in Callers :
          (gm[c].pc = "locked" /\ gm'[c].pc = "idle") =>
              LET m == gm[c].name
              IN  /\ epochFails'[m] = epochFails[m] + 1 =>
                         /\ gm'[c].err /\ gm'[c].ret = 0
                         /\ ~IsModelLoaded(m)'
                         /\ loadedModels' = loadedModels
                  /\ (~IsModelLoaded(m) /\ RegModels[m].Provider \in RegisteredTypes) =>
                         epochCreates'[m] = epochCreates[m] + 1]_vars

\* The creator of a model failed, was invoked again and succeeded.
C21_Witness ==
    \E m \in ModelNames, c \in Callers :
        /\ epochFails[m] = 1 /\ epochCreates[m] = 2
        /\ IsModelLoaded(m)
        /\ gm[c].pc = "idle" /\ gm[c].name = m /\ ~gm[c].err
        /\ gm[c].ret = loadedModels[m]

\* The handles the last Close found in the cache.
FoundByClose == {closeLog.pre[m] : m \in DOMAIN closeLog.pre} \ {0}

\* C22: registry Close calls Close exactly once on every provider loaded at
\* that moment, also after the Close of another provider failed, leaves the
\* cache empty, and returns the error of the last failed Close it met (nil
\* if none failed).
C22_CloseClosesAllReturnsLastError ==
    /\ [](epoch >= 1 =>
            LET order == closeLog.order
                failed == {i \in DOMAIN order : order[i] \in closeLog.errs}
            IN  /\ Len(order) = Cardinality(FoundByClose)
                /\ {order[i] : i \in DOMAIN order} = FoundByClose
                /\ failed = {} => closeLog.ret = 0
                /\ failed # {} =>
                       \E i \in failed : /\ closeLog.ret = order[i]
                                          /\ \A j \in failed : j <= i)
    /\ [][epoch' = epoch + 1 => \A m \in ModelNames : ~IsModelLoaded(m)']_vars

\* Close met two providers: the Close of the first failed, the second was
\* closed all the same, and the first one's error was returned.
C22_Witness ==
    /\ epoch = 1
    /\ Len(closeLog.order) = 2
    /\ closeLog.errs = {closeLog.order[1]}
    /\ closeLog.ret = closeLog.order[1]
    /\ closeLog.order[2] \in closedHandles
    /\ \A m \in ModelNames : ~IsModelLoaded(m)

\* The arguments of a caller's latest call do not pass GetModel's checks.
InvalidCall(g) ==
    \/ globalConfig = "nil"
    \/ g.name \notin ModelNames
    \/ g.lang = ""
    \/ g.lang \notin RegModels[g.name].Languages

\* C23: GetModel returns an error when the registry has no configuration,
\* the name is not configured, the language is empty or not supported by the
\* model; it then invokes no creator and leaves the loaded models as they
\* were, also when the named model is loaded.
C23_InvalidCallTouchesNothing ==
    /\ [](\A c \in Callers :
            (gm[c] # GmIdle /\ InvalidCall(gm[c])) =>
                gm[c].pc = "idle" /\ gm[c].err /\ gm[c].ret = 0)
    /\ [][\A c \in Callers :
            (gm[c].pc = "idle" /\ gm'[c] # gm[c] /\ InvalidCall(gm'[c])) =>
                /\ loadedModels' = loadedModels
                /\ epochCreates' = epochCreates
                /\ nextHandle' = nextHandle]_vars

\* A call for a loaded model with a language it does not support was
\* refused and the model is still loaded.
C23_Witness ==
    \E c \in Callers :
        /\ gm[c].hit /\ gm[c].lang = "fr"
        /\ gm[c].pc = "idle" /\ gm[c].err /\ gm[c].ret = 0
        /\ gm[c].startEpoch = epoch
        /\ IsModelLoaded(gm[c].name)

(***************************************************************************)
(* The event stream of a connection (specification Spec)                   *)
(***************************************************************************)
Committed == "input_audio_buffer.committed"
Created == "conversation.item.created"
SpeechStopped == "input_audio_buffer.speech_stopped"
Delta == "conversation.item.input_audio_transcription.delta"
Completed == "conversation.item.input_audio_transcription.completed"
Failed == "conversation.item.input_audio_transcription.failed"

WireIdx == 1 .. Len(wire)

IsTerminal(e) == e.type \in {Completed, Failed}

\* The texts of the delta events for item x among the first n events, joined
\* in stream order.
RECURSIVE DeltaText(_, _)
DeltaText(x, n) ==
    IF n = 0 THEN <<>>
    ELSE DeltaText(x, n - 1)
         \o (IF wire[n].type = Delta /\ wire[n].item = x THEN wire[n].text
             ELSE <<>>)

\* C2: the transcription of an item writes at most one terminal event
\* (completed or failed), and once it has written that event it writes no
\* further event, delta or other, for the item.
C2_OneTerminalThenSilence ==
    \A i \in WireIdx :
        (wire[i].by # 0 /\ IsTerminal(wire[i]))
            => \A j \in WireIdx : j > i => wire[j].by # wire[i].by

\* A transcription that streamed a delta, then wrote its terminal event and
\* returned.
C2_Witness ==
    \E i, j \in WireIdx :
        /\ i < j
        /\ wire[i].by # 0 /\ wire[j].by = wire[i].by
        /\ wire[i].type = Delta /\ IsTerminal(wire[j])
        /\ tasks[wire[i].by].pc = "done"

C4_CommittedCreatedTranscribed ==
    \A i \in WireIdx :
        /\ wire[i].type = Created
              => \E j \in WireIdx :
                    j < i /\ wire[j].type = Committed /\ wire[j].item = wire[i].item
        /\ wire[i].by # 0
              => \E j \in WireIdx :
                    j < i /\ wire[j].type = Created /\ wire[j].item = wire[i].by

\* A stream with transcription events of two items, one committed by the
\* VAD (it has a speech_stopped event) and one committed by the client.
C4_Witness ==
    \E x, y \in TaskIds :
        /\ \E i \in WireIdx : wire[i].type = SpeechStopped /\ wire[i].item = x
        /\ ~ \E i \in WireIdx : wire[i].type = SpeechStopped /\ wire[i].item = y
        /\ \E i \in WireIdx : wire[i].by = x
        /\ \E i \in WireIdx : wire[i].by = y

\* C7: the outbound writes of a connection are serialized: no two calls of
\* WriteJSON on it are in progress at once.
C7_WritesSerialized == Cardinality(writing) <= 1

\* C8: once the connection's handler has ended, every transcription task
\* still in flight has a cancelled context, and no task calls WriteJSON for
\* a delta, completed or failed event after that.
C8_CloseCancelsTasks ==
    sess.pc = "exited"
        => /\ \A t \in TaskIds : tasks[t].pc = "done" \/ tasks[t].ctxDone
           /\ ~lateWrite

\* C9: on every path on which HandleNewConnection ends after it created the
\* session, the session is gone from the session map and its VAD from the
\* VAD map.
C9_ExitRemovesSessionAndVAD ==
    sess.pc = "exited" => SID \notin sessions /\ ~vadMap

\* C10: when the deadline of a transcription expires before the provider's
\* chunk stream has ended, the task's terminal event is
\* failed(transcription_timeout) and it never writes completed, however the
\* provider reacts to the cancellation.
C10_ExpiredMeansTimeout ==
    \A t \in TaskIds :
        tasks[t].expiredEarly
            => \A i \in WireIdx :
                  (wire[i].by = t /\ IsTerminal(wire[i]))
                      => wire[i].type = Failed /\ wire[i].code = "transcription_timeout"

(***************************************************************************)
(* The event stream of one VAD provider (specification SpecVad)            *)
(***************************************************************************)
VStream == vlog.stream

VIdx == 1 .. Len(VStream)

IsSpeechEv(e) == e.Type \in {"speech_started", "speech_stopped"}

\* The last speech event before position i (0: none).
PrevSpeech(i) ==
    LET before == {j \in VIdx : j < i /\ IsSpeechEv(VStream[j])}
    IN  IF before = {} THEN 0 ELSE CHOOSE j \in before : \A k \in before : k <= j

\* The last speech event or Reset before position i (0: none).
PrevSpeechOrReset(i) ==
    LET before == {j \in VIdx : j < i /\ (IsSpeechEv(VStream[j])
                                          \/ VStream[j].Type = "reset")}
    IN  IF before = {} THEN 0 ELSE CHOOSE j \in before : \A k \in before : k <= j

\* C14 as stated: under any sequence of ProcessAudio, ForceCommit and Reset
\* calls speech_started and speech_stopped strictly alternate, beginning
\* with speech_started, and no timeout lies between a speech_started and
\* its speech_stopped.
C14_StartStopAlternate ==
    \A i \in VIdx :
        LET p == PrevSpeech(i)
        IN  /\ VStream[i].Type = "speech_started"
                  => p = 0 \/ VStream[p].Type = "speech_stopped"
            /\ VStream[i].Type = "speech_stopped"
                  => p # 0 /\ VStream[p].Type = "speech_started"
            /\ VStream[i].Type = "timeout"
                  => p = 0 \/ VStream[p].Type = "speech_stopped"

\* C14 amended: every speech_stopped directly follows, among the speech
\* events, its speech_started with no Reset between them; a speech_started
\* follows nothing, a speech_stopped or a Reset (a Reset during an utterance
\* abandons it without a speech_stopped); a timeout never follows a
\* speech_started unless a Reset came between.
C14_AlternateUpToReset ==
    \A i \in VIdx :
        LET p == PrevSpeechOrReset(i)
        IN  /\ VStream[i].Type = "speech_started"
                  => p = 0 \/ VStream[p].Type \in {"speech_stopped", "reset"}
            /\ VStream[i].Type = "speech_stopped"
                  => p # 0 /\ VStream[p].Type = "speech_started"
            /\ VStream[i].Type = "timeout"
                  => p = 0 \/ VStream[p].Type \in {"speech_stopped", "reset"}

\* Two utterances, the first ended by ForceCommit or by silence, the second
\* begun only after that, and a Reset somewhere in the stream.
C14_Witness ==
    \E i, j, k \in VIdx :
        /\ i < j /\ j < k
        /\ VStream[i].Type = "speech_started"
        /\ VStream[j].Type = "speech_stopped"
        /\ VStream[k].Type = "speech_started"
        /\ \E r \in VIdx : VStream[r].Type = "reset"

C16_ThresholdOneNeverStarts ==
    \A i \in VIdx :
        VStream[i].Type = "speech_started"
            => VStream[i].thr # 2 * DefaultThresholdMilli

(***************************************************************************)
(* C13, C17: the scripted scenarios (SpecScen)                             *)
(***************************************************************************)
ErrorsOnWire(code) ==
    Cardinality({i \in 1 .. Len(wire) : wire[i].type = "error" /\ wire[i].code = code})

S2Done == scen.name = "S2" /\ scen.phase = "done"

\* What S2 expects once the commit is handled: an append of the 2048 bytes
\* was rejected, every rejected append wrote exactly one error(buffer_full),
\* the append of 100 bytes was rejected too, and the committed item holds
\* exactly the first 1024 bytes the client sent.
S2Expected ==
    /\ scen.rej >= 1
    /\ scen.extraErr
    /\ ErrorsOnWire("buffer_full") = scen.rej + 1
    /\ scen.item # 0
    /\ HasItem(conv, scen.item)
    /\ conv.Items[scen.item].audio = Stretch(0, S2.cap)

\* C13 as stated: with a cap of 1024 bytes and appends totalling 2048 bytes
\* in any chunking, the overflowing append yields exactly one
\* error(buffer_full), the following append of 100 bytes yields
\* error(buffer_full) too, and the commit makes an item whose audio is
\* exactly the first 1024 bytes sent.
C13_AnyChunkingKeepsPrefix == S2Done => S2Expected

\* Some prefix of the client's appends totals exactly the cap.
S2FillsExactly == S2.cap % scen.size = 0

\* C13, amended: when some prefix of the appends totals exactly 1024 bytes,
\* every later append (the 100-byte one included) is rejected with exactly
\* one error(buffer_full) and the commit makes an item whose audio is
\* exactly the first 1024 bytes sent; in every chunking each rejected append
\* writes exactly one error(buffer_full) and the item holds the accepted
\* appends only, never more than 1024 bytes.
C13_ExactFillKeepsPrefix ==
    /\ scen.name = "S2" =>
          ErrorsOnWire("buffer_full") = scen.rej + (IF scen.extraErr THEN 1 ELSE 0)
    /\ S2Done =>
          /\ scen.item # 0 /\ HasItem(conv, scen.item)
          /\ Len(conv.Items[scen.item].audio) <= S2.cap
          /\ S2FillsExactly => S2Expected

\* A chunking of several appends that fills the buffer exactly, then has
\* more than one append rejected before the commit.
C13_Witness ==
    /\ S2Done /\ S2FillsExactly /\ scen.size < S2.cap /\ scen.rej >= 2
    /\ S2Expected

\* C17 as stated: once the S4 audio is fed in chunks of any size the VAD has
\* emitted exactly one speech_started and then exactly one speech_stopped
\* whose end_ms - start_ms is at least 1000.
C17_OneUtteranceAnyChunkSize ==
    (scen.name = "S4" /\ scen.sent >= S4TotalBytes) =>
        /\ Len(VStream) = 2
        /\ VStream[1].Type = "speech_started"
        /\ VStream[2].Type = "speech_stopped"
        /\ VStream[2].EndMs - VStream[2].StartMs >= S4Segments[2].ms

(***************************************************************************)
(* C18, C19, C20: inbound messages (SpecMsg)                               *)
(***************************************************************************)
Handled(m) == lastMsg.m = m

\* The events the last message made the server write.
NewEvents == SubSeq(wire, Len(lastMsg.pre[1].wire) + 1, Len(wire))

ModelOf(t) == IF t = Nil THEN "" ELSE t[1].Model

\* C18 as stated: a session.update that provides only
\* audio.input.transcription.language yields one session.updated whose
\* transcription.language is the new value and whose transcription.model and
\* other fields are what they were before, whatever updates came earlier.
C18_LanguageOnlyUpdateKeepsModel ==
    Handled(Msg("session.update", "evt_1", TRUE, Ptr(UpdLanguageOnly), "", <<>>)) =>
        LET before == lastMsg.pre[1].scfg
        IN  /\ Len(NewEvents) = 1
            /\ NewEvents[1].type = "session.updated"
            /\ NewEvents[1].sess = Ptr(scfg)
            /\ scfg.Transcription # Nil
            /\ scfg.Transcription[1].Language = UpdLanguageOnly.Transcription[1].Language
            /\ ModelOf(scfg.Transcription) = ModelOf(before.Transcription)
            /\ scfg.Instructions = before.Instructions
            /\ scfg.TurnDetection = before.TurnDetection

\* C19 as stated: every error event written for a message whose envelope
\* (and so its event_id) decoded carries that event_id in error.event_id,
\* whatever the handler and the error code.
C19_ErrorEchoesEventId ==
    lastMsg.m.kind \notin {"none", "not-json"} =>
        \A i \in 1 .. Len(NewEvents) :
            NewEvents[i].type = "error" => NewEvents[i].eid = lastMsg.m.eid

IsRejectError(e) == e.type = "error" /\ e.code \in {"invalid_json", "unknown_event_type"}

NotRejectError(e) == ~IsRejectError(e)

\* The fields of a session state other than the stream written so far.
Kept(st) ==
    <<st.ab, st.conv, st.scfg, st.vadMap, st.vad, st.vcfg, st.nextId, st.tasks,
      st.currentResponse>>

\* C20: a message that is not decodable JSON yields exactly one
\* error(invalid_json) and one of unknown type exactly one
\* error(unknown_event_type); the session stays in its read loop, its buffer,
\* conversation, config and VAD state are what they were, and the session's
\* state and every other event written are those of a session that was sent
\* the same messages without the bad ones.
C20_BadMessageChangesNothing ==
    lastMsg.twin # Nil =>
        /\ sess.pc = "read" /\ SID \in sessions /\ connOpen
        /\ Kept(CurSt) = Kept(lastMsg.twin[1])
        /\ SelectSeq(wire, NotRejectError) = lastMsg.twin[1].wire
        /\ Len(SelectSeq(wire, IsRejectError)) = lastMsg.bad
        /\ lastMsg.m \in InvalidMsgs \cup UnknownMsgs =>
              /\ Kept(CurSt) = Kept(lastMsg.pre[1])
              /\ Len(NewEvents) = 1
              /\ NewEvents[1].type = "error"
              /\ NewEvents[1].code = IF lastMsg.m \in InvalidMsgs THEN "invalid_json"
                                     ELSE "unknown_event_type"

\* A message that is not JSON and one of unknown type were each answered
\* with one error, and the append that came after them was stored.
C20_Witness ==
    /\ ErrorsOnWire("invalid_json") = 1
    /\ ErrorsOnWire("unknown_event_type") = 1
    /\ lastMsg.bad = 2
    /\ lastMsg.m \in AppendMsgs
    /\ AbGetSize(ab) > 0
    /\ sess.pc = "read"

(***************************************************************************)
(* C24 .. C28, C30: conversation, responses, commit, VAD settings          *)
(***************************************************************************)
HandledKind(kind) == lastMsg.m.kind = kind /\ lastMsg.pre # Nil

Before == lastMsg.pre[1]

\* s without the first occurrence of x.
RECURSIVE Without(_, _)
Without(s, x) ==
    IF s = <<>> THEN <<>>
    ELSE IF Head(s) = x THEN Tail(s)
    ELSE <<Head(s)>> \o Without(Tail(s), x)

\* C24 as stated: after any sequence of conversation.item.create (with or
\* without a client item ID), conversation.item.delete, commits and
\* response.create, the order holds exactly the keys of the item map, each
\* once; a delete that succeeds takes the ID out of the map and the order
\* and keeps the order of the others.
C24_OrderMatchesItems ==
    /\ {conv.Order[i] : i \in DOMAIN conv.Order} = DOMAIN conv.Items
    /\ \A i, j \in DOMAIN conv.Order : conv.Order[i] = conv.Order[j] => i = j
    /\ (HandledKind("conversation.item.delete") /\ NewEvents # <<>>
          /\ NewEvents[1].type = "conversation.item.deleted") =>
           /\ ~HasItem(conv, lastMsg.m.itemId)
           /\ conv.Order = Without(Before.conv.Order, lastMsg.m.itemId)

\* C25 as stated: every input_audio_buffer.committed and
\* conversation.item.created event carries as previous_item_id the ID at the
\* tail of the order just before the item was inserted (absent, 0, when the
\* conversation was empty), for commits and for conversation.item.create.
C25_PreviousIsTailBeforeInsert ==
    lastMsg.pre # Nil =>
        \A i \in DOMAIN NewEvents :
            NewEvents[i].type \in {"input_audio_buffer.committed",
                                   "conversation.item.created"}
                => NewEvents[i].prev = Last(Before.conv.Order)

\* C26 as stated: response.cancel without a current response writes
\* error(no_active_response) and changes nothing; otherwise it writes exactly
\* one response.done that carries the response with status cancelled, and
\* no current response is left.
C26_CancelEmitsCancelledResponse ==
    HandledKind("response.cancel") =>
        IF Before.currentResponse = Nil
        THEN /\ Len(NewEvents) = 1
             /\ NewEvents[1].type = "error"
             /\ NewEvents[1].code = "no_active_response"
             /\ Kept(CurSt) = Kept(Before)
        ELSE /\ Len(NewEvents) = 1
             /\ NewEvents[1].type = "response.done"
             /\ NewEvents[1].resp =
                    Ptr([Before.currentResponse[1] EXCEPT !.status = "cancelled"])
             /\ currentResponse = Nil

\* C27 as stated: no transcription delta event with an empty delta is ever
\* written.
C27_NoEmptyDelta ==
    \A i \in DOMAIN wire :
        wire[i].type = "conversation.item.input_audio_transcription.delta"
            => wire[i].text # <<>>

\* C28: input_audio_buffer.commit on an empty buffer writes exactly one
\* error(empty_buffer) and nothing else, makes no item, starts no
\* transcription and leaves buffer and conversation as they were.
C28_EmptyCommitOnlyErrors ==
    (HandledKind("input_audio_buffer.commit") /\ Before.ab.Data = <<>>) =>
        /\ Len(NewEvents) = 1
        /\ NewEvents[1].type = "error"
        /\ NewEvents[1].code = "empty_buffer"
        /\ conv = Before.conv
        /\ ab = Before.ab
        /\ tasks = Before.tasks
        /\ Kept(CurSt) = Kept(Before)

\* A commit made an item and emptied the buffer; the commit after it was
\* refused and left the conversation with that one item.
C28_Witness ==
    /\ HandledKind("input_audio_buffer.commit")
    /\ Before.ab.Data = <<>>
    /\ Len(conv.Order) = 1
    /\ DOMAIN tasks # {}
    /\ ErrorsOnWire("empty_buffer") = 1

\* C30 as stated: once a session.update has provided turn_detection, the
\* VAD decides every later append with the settings of the session's
\* current turn detection, whether or not the VAD already existed.
C30_AppendUsesCurrentTurnDetection ==
    ( /\ HandledKind("input_audio_buffer.append")
      /\ Len(ab.Data) > Len(Before.ab.Data)
      /\ Before.scfg.TurnDetection # Nil
      /\ Before.scfg.TurnDetection[1].Type # "" ) =>
        vcfg = VADConfigFromTurnDetection(Before.scfg.TurnDetection[1])
(***************************************************************************)
(* C29: Close of the VAD under concurrency                                 *)
(***************************************************************************)
ClosesInProgress == {c \in ClProcs : vproc.cl[c] \in {"locked", "cancel", "close"}}

\* The step is one of p's call, and that call started after a Close returned.
StepOfLateCall(p) ==
    /\ vproc'.pa[p] # vproc.pa[p]
    /\ vproc.pa[p].after \/ vproc'.pa[p].after

\* C29: for any interleaving of Close calls and ProcessAudio calls, the event
\* channel is closed at most once, and exactly once when a Close has returned
\* and none is in progress; nothing is sent on the closed channel; a
\* ProcessAudio that starts after a Close returned never gets past the test
\* of closed, changes no field of the provider and sends nothing.
C29_CloseOnceNoSendAfter ==
    /\ [](/\ vproc.closes <= 1
          /\ ~vproc.closeOfClosed
          /\ ~vproc.sendOnClosed
          /\ (vproc.returned /\ ClosesInProgress = {}) => vproc.closes = 1
          /\ \A p \in PaProcs :
                vproc.pa[p].after => vproc.pa[p].pc \in {"idle", "rlock", "check"})
    /\ [][\A p \in PaProcs : StepOfLateCall(p) => vad' = vad]_vars

\* Both Close calls returned, the channel was closed once, and a
\* ProcessAudio that started after a Close has returned, while an earlier
\* call had put an event on the channel or been cut off by Close.
C29_Witness ==
    /\ \A c \in ClProcs : vproc.cl[c] = "done"
    /\ vproc.closes = 1
    /\ vad.isSpeaking
    /\ \E p \in PaProcs : vproc.pa[p].after /\ vproc.pa[p].pc = "idle"
(***************************************************************************)
(* C31 .. C40                                                              *)
(***************************************************************************)
\* The session task is about to run state.Conversation.AddItem.
SessAtAddItem == sess.pc = "run" /\ Head(sess.ops).k = "add"

\* C31 as stated: conversation accesses are serialized; a transcription
\* task is never at its GetItem and transcript write while the session task
\* is at a mutation of the same conversation, with no lock to order the two.
C31_ConversationAccessSerialized ==
    \A t \in TaskIds : ~(tasks[t].pc = "patch" /\ SessAtAddItem)
\* The task of item t has written completed or failed for it and returned.
Terminated(t) ==
    /\ t \in TaskIds
    /\ tasks[t].pc = "done"
    /\ \E i \in DOMAIN wire : wire[i].by = t /\ IsTerminal(wire[i])

\* C32: every transcription task a commit starts eventually writes a
\* terminal event and returns, given that its provider closes the stream or
\* its deadline elapses.
C32_EveryTaskTerminates ==
    \A t \in ItemIds : (t \in TaskIds) ~> Terminated(t)

\* A task has returned after it streamed a chunk and wrote completed, on a
\* connection that is already down.
C32_Witness ==
    \E t \in TaskIds :
        /\ Terminated(t)
        /\ tasks[t].sent > 0
        /\ ~connOpen
        /\ \E i \in DOMAIN wire : wire[i].by = t /\ wire[i].type = Completed
\* Blocks of audio held by the items with the IDs ids.
RECURSIVE ItemAudio(_)
ItemAudio(ids) ==
    IF ids = {} THEN 0
    ELSE LET x == CHOOSE y \in ids : TRUE
         IN  Len(conv.Items[x].audio) + ItemAudio(ids \ {x})

\* Blocks accepted by append so far: with turn detection on, every accepted
\* chunk went through ProcessAudio, whose clock counts them.
AcceptedBlocks ==
    vad.currentMs \div (((BlockBytes \div 2) * 1000) \div SampleRate)

\* C33 as stated: with VAD enabled every accepted byte is in the audio of at
\* most one committed item, so the items together never hold more audio than
\* was accepted.
C33_AudioInAtMostOneItem ==
    ItemAudio(DOMAIN conv.Items) <= AcceptedBlocks
\* Some new event of the last message has the type.
Wrote(type) == \E i \in DOMAIN NewEvents : NewEvents[i].type = type

\* C34: a commit the VAD triggers leaves the session's audio buffer as the
\* append made it; no message but input_audio_buffer.commit and
\* input_audio_buffer.clear shortens the buffer or touches its committed
\* flag, and an append is refused with buffer_full exactly when the buffer,
\* VAD-committed bytes included, has no room for the chunk.
C34_VadCommitKeepsBuffer ==
    (lastMsg.pre # Nil /\ lastMsg.m.kind \notin {"input_audio_buffer.commit",
                                                "input_audio_buffer.clear"}) =>
        /\ Len(ab.Data) >= Len(Before.ab.Data)
        /\ SubSeq(ab.Data, 1, Len(Before.ab.Data)) = Before.ab.Data
        /\ ab.committed = Before.ab.committed
        /\ (HandledKind("input_audio_buffer.append") /\ Wrote(Committed)) =>
               ab = AbAppend(Before.ab, lastMsg.m.chunk)
        /\ (HandledKind("input_audio_buffer.append") /\ lastMsg.m.ok
              /\ lastMsg.m.audio = "base64") =>
               (Wrote("error") <=> AbAppendErr(Before.ab, lastMsg.m.chunk))

\* An append made the VAD commit an utterance, and the buffer still holds
\* all of it.
C34_Witness ==
    /\ HandledKind("input_audio_buffer.append")
    /\ Wrote(Committed)
    /\ Before.ab.Data # <<>>
    /\ ab.Data = Before.ab.Data \o lastMsg.m.chunk
\* The provider with its event channel filled to capacity.
FullChannel(v) == [v EXCEPT !.events = [i \in 1 .. VadChanCap |-> NoVadEvent]]

\* ProcessAudio(chunk) on the provider v under the configuration in force.
Processed(v, chunk) ==
    VadProcessAudio(v, vcfg, chunk, Len(chunk) * BlockBytes,
                    EnergyAbove(chunk, vcfg))

\* C35: a ProcessAudio call puts at most one event on the channel (and no
\* other call puts any), so a channel drained after every call never
\* overflows; on a full channel ProcessAudio returns all the same, with the
\* channel as it was and the detector's fields as after a call that could
\* send.
C35_OneEventPerCall ==
    /\ [](\A chunk \in VadChunks :
            /\ Len(Processed([vad EXCEPT !.events = <<>>], chunk).events) <= 1
            /\ LET w == Processed(FullChannel(vad), chunk)
               IN  /\ w.events = FullChannel(vad).events
                   /\ [w EXCEPT !.events = <<>>] =
                      [Processed([vad EXCEPT !.events = <<>>], chunk)
                          EXCEPT !.events = <<>>])
    /\ [][Len(vad'.events) <= Len(vad.events) + 1]_vars

\* Calls with an idle timeout configured have put a speech_started, a
\* speech_stopped and a timeout on the channel, one per call.
C35_Witness ==
    /\ vcfg.IdleTimeoutMs > 0
    /\ \E i, j, k \in DOMAIN vad.events :
          /\ vad.events[i].Type = "speech_started"
          /\ vad.events[j].Type = "speech_stopped"
          /\ vad.events[k].Type = "timeout"
\* C36 as stated: the VAD clock depends on the amount of audio fed only:
\* after chunks that total N whole samples, whatever their size, current_ms
\* is N * 1000 / sample_rate in integer division.
C36_ClockIndependentOfChunking ==
    scen.name = "S4" =>
        vad.currentMs = ((scen.sent \div 2) * 1000) \div vcfg.SampleRate
\* C37 as stated: the sample rate by which the session's VAD turns chunk
\* lengths into milliseconds is the input rate of the session's config,
\* also after a session.update that changed the rate.
C37_VadUsesSessionRate ==
    ( /\ HandledKind("input_audio_buffer.append")
      /\ Len(ab.Data) > Len(Before.ab.Data)
      /\ Before.scfg.TurnDetection # Nil
      /\ Before.scfg.TurnDetection[1].Type # ""
      /\ Before.scfg.Format # Nil ) =>
        vcfg.SampleRate = Before.scfg.Format[1].Rate
\* C38 as stated: a timeout event is emitted only with idle_timeout_ms > 0
\* and while not speaking, and once a chunk above the threshold has been fed
\* only after idle_timeout_ms of further audio without speech.
C38_TimeoutAfterIdleSinceSpeech ==
    \A i \in DOMAIN vlog.tmo :
        /\ vlog.tmo[i].limit > 0
        /\ ~vlog.tmo[i].speaking
        /\ vlog.tmo[i].spoke => vlog.tmo[i].idle >= vlog.tmo[i].limit
\* The events a call added to the channel of v, w being the provider after.
Sent(v, w) == SubSeq(w.events, Len(v.events) + 1, Len(w.events))

IsStopped(e) == e.Type = "speech_stopped"

\* C39: ForceCommit returns nothing and changes nothing on an empty segment
\* buffer; on a non-empty one it returns a speech_stopped with exactly that
\* buffer and leaves the buffer empty and the provider not speaking, so the
\* next chunk above the threshold sends a new speech_started and the
\* speech_stopped after it holds the chunks fed since, none of those
\* ForceCommit returned.
C39_ForceCommitHandsOverSegment ==
    LET e == VadForceCommitEvent(vad)
        w == VadForceCommit(vad)
    IN  IF vad.audioBuffer = <<>>
        THEN e = NoVadEvent /\ w = vad
        ELSE /\ e.Type = "speech_stopped"
             /\ e.AudioData = vad.audioBuffer
             /\ w.audioBuffer = <<>>
             /\ ~w.isSpeaking
             /\ \A c1 \in VadChunks :
                   (c1 # <<>> /\ EnergyAbove(c1, vcfg)) =>
                      LET w1 == Processed(w, c1)
                      IN  /\ Len(Sent(w, w1)) = 1
                          /\ Sent(w, w1)[1].Type = "speech_started"
                          /\ w1.audioBuffer = c1
                          /\ \A c2 \in VadChunks :
                                LET w2 == Processed(w1, c2)
                                IN  \A i \in DOMAIN Sent(w1, w2) :
                                       IsStopped(Sent(w1, w2)[i]) =>
                                          Sent(w1, w2)[i].AudioData = c1 \o c2

\* ForceCommit cut an utterance short, and ProcessAudio has since started
\* and ended another one.
C39_Witness ==
    /\ Len(SelectSeq(vlog.stream, IsStopped)) = 2
    /\ Len(SelectSeq(vad.events, IsStopped)) = 1
    /\ IsStopped(vlog.stream[Len(vlog.stream)])
    /\ IsStopped(vad.events[Len(vad.events)])
    /\ Len(SelectSeq(vad.events, LAMBDA e : e.Type = "speech_started")) = 2
\* conversation.item.deleted has been written for the item t.
Deleted(t) ==
    \E i \in DOMAIN wire :
        wire[i].type = "conversation.item.deleted" /\ wire[i].item = t

\* The task of item t, having written completed, runs its patch.
Patches(t) ==
    /\ t \in TaskIds /\ tasks[t].pc = "patch"
    /\ t \in DOMAIN tasks' /\ tasks'[t].pc = "done"

\* C40: the patch that follows completed(t, T) puts T into the item t when
\* the item is still in the conversation and changes nothing else; when the
\* item was deleted before, the patch changes nothing in the conversation.
C40_PatchOnlyLivingItem ==
    [][\A t \in ItemIds :
          Patches(t) =>
             IF Deleted(t) THEN conv' = conv
             ELSE HasItem(conv, t) =>
                     conv' = [conv EXCEPT !.Items[t].transcript = tasks[t].full]]_vars
=============================================================================
